---- MODULE Spec2Model ----
(***************************************************************************)
(* A model of the netlist graph engine of netlist-paths: the loader's      *)
(* construction of the graph (ReadVerilatorXML.cpp), the register split    *)
(* (Graph.cpp) and the path queries (Graph.cpp, Netlist.cpp).              *)
(*                                                                         *)
(* Vertex ids are 1-based here (Boost's vecS ids are 0-based); NullVertex  *)
(* is 0.  Names are sequences of one-character strings so that prefix      *)
(* tests can be computed as the code computes them.                        *)
(***************************************************************************)
EXTENDS Integers, Sequences, FiniteSets, TLC

\* ------------------------------------------------------------------------
\* Bounds of the model.
\* ------------------------------------------------------------------------
MaxVars == 3
MaxLogic == 2
MaxWaypoints == 3
MaxAvoid == 1

NullVertex == 0

\* ------------------------------------------------------------------------
\* Names.
\* ------------------------------------------------------------------------
NameI == <<"i">>
NameO == <<"o">>
NameA == <<"t", ".", "a">>
NameTO == <<"t", ".", "o">>
NoName == <<>>

IsPrefix(p, s) ==
  /\ Len(p) <= Len(s)
  /\ \A k \in 1..Len(p) : s[k] = p[k]

\* std::string::find_first_of('.'): position of the first dot, 0 when absent.
FindFirstDot(name) ==
  IF \E k \in 1..Len(name) : name[k] = "."
    THEN CHOOSE k \in 1..Len(name) :
           /\ name[k] = "."
           /\ \A j \in 1..(k-1) : name[j] # "."
    ELSE 0

IsGeneratedName(name) == IsPrefix(<<"_", "_", "V">>, name)

\* ------------------------------------------------------------------------
\* The input document: the var nodes and statement nodes the loader visits.
\* ------------------------------------------------------------------------
\* <var name dir origName>.  The elaborator emits ports before the dotted
\* internal variables; DeclOrder is a node's place in that order.
VarNodes ==
  { [name |-> NameI,  dir |-> "input",  origName |-> NameI,  dtype_id |-> 1],
    [name |-> NameO,  dir |-> "output", origName |-> NameO,  dtype_id |-> 1],
    [name |-> NameA,  dir |-> "none",   origName |-> <<"a">>, dtype_id |-> 1],
    [name |-> NameTO, dir |-> "none",   origName |-> NameO,  dtype_id |-> 1] }

DeclOrder(n) ==
  CASE n.name = NameI  -> 1
    [] n.name = NameO  -> 2
    [] n.name = NameA  -> 3
    [] n.name = NameTO -> 4

\* Names a <varref> that is read may carry; the bare "a" is found in vars
\* under its prefixed name.
RefNames == {NameI, <<"a">>}
\* Names a <varref> on the left-hand side may carry (an input is never
\* assigned).
LhsNames == {NameO, <<"a">>}

\* The varrefs under the right-hand side of an assignment: one variable, or
\* the same variable referenced twice.
RhsLists == {<<n>> : n \in RefNames} \cup {<<n, n>> : n \in RefNames}

AssignNodes ==
  { [ast |-> a, rhs |-> r, lhs |-> <<l>>, body |-> <<>>] :
      a \in {"ASSIGN", "ASSIGN_DLY"}, r \in RhsLists, l \in LhsNames }

\* An <always> with a sensitivity varref and one nested delayed assignment.
AlwaysNodes ==
  { [ast |-> "ALWAYS", rhs |-> s, lhs |-> <<>>,
     body |-> << [ast |-> "ASSIGN_DLY", rhs |-> <<r>>, lhs |-> <<l>>,
                  body |-> <<>>] >>] :
      s \in {<<NameI>>}, r \in RefNames, l \in LhsNames }

StmtNodes == AssignNodes \cup AlwaysNodes

\* The wider document of the load-only specification: every declared name
\* may be read or written, and an <always> may lack a sensitivity varref.
AnyRefNames == {NameI, NameO, <<"a">>, NameTO}
AnyLhsNames == {NameO, <<"a">>, NameTO}
AnyRhsLists == {<<n>> : n \in AnyRefNames} \cup {<<n, n>> : n \in AnyRefNames}

AnyStmtNodes ==
  { [ast |-> a, rhs |-> r, lhs |-> <<l>>, body |-> <<>>] :
      a \in {"ASSIGN", "ASSIGN_DLY"}, r \in AnyRhsLists, l \in AnyLhsNames }
  \cup
  { [ast |-> "ALWAYS", rhs |-> s, lhs |-> <<>>,
     body |-> << [ast |-> "ASSIGN_DLY", rhs |-> <<r>>, lhs |-> <<l>>,
                  body |-> <<>>] >>] :
      s \in {<<>>, <<NameI>>}, r \in AnyRefNames, l \in AnyLhsNames }

\* Number of logic vertices a statement node creates.
NumStatements(node) == 1 + Len(node.body)

VARIABLES
  vertex,        \* Graph::graph vertices: sequence of [ast, name, dir]
  edges,         \* Graph::graph edges in insertion order: sequence of <<src, dst>>
  vars,          \* ReadVerilatorXML::vars: canonical name -> vertex id
  topName,       \* ReadVerilatorXML::topName
  netlist,       \* names of the children of <netlist> that readXML counted over
  typetable,     \* the dtype nodes under <typetable>, in document order
  dtypeMappings, \* ReadVerilatorXML::dtypeMappings: dtype id -> type
  dispatched,    \* the child of the module or scope last handed to
                 \* dispatchVisitor by the walk over general nodes
  pc,            \* "netlist", "typetable", "typetable2", "module", "scope"
                 \* (currentScope is set), "loaded", "ready", "answered",
                 \* "failed" (an exception left the load), "died" (the
                 \* process was ended by a failed assert or a fault)
  query,         \* the last query made
  result         \* its result

vars_ ==
  <<vertex, edges, vars, topName, netlist, typetable, dtypeMappings,
    dispatched, pc, query, result>>

\* ------------------------------------------------------------------------
\* Vertex predicates.
\* ------------------------------------------------------------------------
LogicAstTypes ==
  {"ALWAYS", "ASSIGN", "ASSIGN_ALIAS", "ASSIGN_DLY", "ASSIGN_W", "INITIAL",
   "INSTANCE", "SEN_GATE", "SEN_ITEM", "C_FUNC"}

isLogic(vx) == vx.ast \in LogicAstTypes
isSrcReg(vx) == vx.ast = "SRC_REG"
isDstReg(vx) == vx.ast = "DST_REG"
\* A register to split: a variable flagged as destination of sequential logic.
isReg(vx) == vx.ast = "DST_REG"
isPort(vx) == vx.dir \in {"input", "output", "inout"}
\* start_point: ports of direction input or inout, or src_reg twins.
isStartPoint(vx) ==
  /\ ~isLogic(vx)
  /\ (vx.ast = "SRC_REG" \/ vx.dir \in {"input", "inout"})
\* end_point: ports of direction output or inout, or dst_reg.
isFinishPoint(vx) ==
  /\ ~isLogic(vx)
  /\ (vx.ast = "DST_REG" \/ vx.dir \in {"output", "inout"})
\* mid_point: any non-logic variable vertex.
isMidPoint(vx) == ~isLogic(vx)

\* ------------------------------------------------------------------------
\* Graph store.  The out-edges of a vertex are the edges with that source in
\* insertion order, the in-edges those with that target in insertion order
\* (adjacency_list<vecS, vecS, bidirectionalS>).
\* ------------------------------------------------------------------------
addEdge(es, src, dst) == Append(es, <<src, dst>>)

RECURSIVE SelectEdges(_, _, _)
\* The subsequence of es whose end `side` (1 source, 2 target) is v.
SelectEdges(es, side, v) ==
  IF es = <<>> THEN <<>>
  ELSE IF Head(es)[side] = v
    THEN <<Head(es)>> \o SelectEdges(Tail(es), side, v)
    ELSE SelectEdges(Tail(es), side, v)

RECURSIVE removeEdge(_, _, _)
\* boost::remove_edge(u, v, g): removes every edge u -> v.
removeEdge(es, u, v) ==
  IF es = <<>> THEN <<>>
  ELSE IF Head(es) = <<u, v>>
    THEN removeEdge(Tail(es), u, v)
    ELSE <<Head(es)>> \o removeEdge(Tail(es), u, v)

outDegree(es, v) == Len(SelectEdges(es, 1, v))
inDegree(es, v) == Len(SelectEdges(es, 2, v))

\* ------------------------------------------------------------------------
\* The type table.  A dtype node is [kind, id, sub, members, ranged]: sub is
\* its sub_dtype_id (0 when the kind has none), members the sub_dtype_ids of
\* its <memberdtype> children, ranged whether a basic type has left and
\* right.  A type is [kind, sub, members, ranged] with sub 0 until the second
\* pass has set it.  The ids of a table's nodes are distinct.
\* ------------------------------------------------------------------------
NullDType == 0
NoTypes == <<>>

\* The table of a design whose variables are all of one basic type.
LogicTypeTable ==
  << [kind |-> "basicdtype", id |-> 1, sub |-> 0, members |-> <<>>,
      ranged |-> FALSE] >>

\* dtypeMappings[id] = dtype.
assign(map, id, dtype) ==
  [k \in DOMAIN map \cup {id} |-> IF k = id THEN dtype ELSE map[k]]

\* dtypeMappings[id] read with operator[]: a missing key is inserted with a
\* null pointer.
subscript(map, id) ==
  IF id \in DOMAIN map THEN map
  ELSE assign(map, id, [kind |-> "null", sub |-> 0, members |-> <<>>,
                        ranged |-> FALSE])

newDType(node) ==
  [kind |-> node.kind, sub |-> 0, members |-> <<>>, ranged |-> node.ranged]

RECURSIVE addMemberDTypes(_, _, _)
\* The loop over the <memberdtype> children of an aggregate already in the
\* map: visitMemberDType throws on a sub_dtype_id that has no type.
addMemberDTypes(st, id, subs) ==
  IF subs = <<>> \/ ~st.ok THEN st
  ELSE IF Head(subs) \notin DOMAIN st.map THEN [st EXCEPT !.ok = FALSE]
  ELSE addMemberDTypes([st EXCEPT !.map[id].members = Append(@, Head(subs))],
                       id, Tail(subs))

\* Variant of visitDType: the second pass sets the sub type without testing
\* that it exists.
visitDTypeWithoutTest(st, node) ==
  IF ~st.ok THEN st
  ELSE IF node.kind = "ifacerefdtype" THEN st
  ELSE IF node.id \notin DOMAIN st.map
    THEN [st EXCEPT !.map = assign(@, node.id, newDType(node))]
  ELSE IF node.kind = "basicdtype" THEN st
  ELSE IF node.kind \in {"structdtype", "uniondtype"}
    THEN addMemberDTypes(st, node.id, node.members)
  ELSE [st EXCEPT !.map[node.id].sub = node.sub]

\* dispatchVisitor on one dtype node; st is [map, ok], ok FALSE once an
\* XMLException has been thrown.
visitDType(st, node) ==
  IF ~st.ok THEN st
  ELSE IF node.kind = "ifacerefdtype" THEN st
  ELSE IF node.id \notin DOMAIN st.map
    THEN [st EXCEPT !.map = assign(@, node.id, newDType(node))]
  ELSE IF node.kind = "basicdtype" THEN st
  ELSE IF node.kind \in {"structdtype", "uniondtype"}
    THEN addMemberDTypes(st, node.id, node.members)
  ELSE IF node.sub \notin DOMAIN st.map THEN [st EXCEPT !.ok = FALSE]
  ELSE [st EXCEPT !.map[node.id].sub = node.sub]

RECURSIVE visitTypeTableFrom(_, _)
visitTypeTableFrom(st, nodes) ==
  IF nodes = <<>> THEN st
  ELSE visitTypeTableFrom(visitDType(st, Head(nodes)), Tail(nodes))

\* visitTypeTable: iterateChildren over the dtype nodes.
visitTypeTable(map, nodes) ==
  visitTypeTableFrom([map |-> map, ok |-> TRUE], nodes)

\* The elements of a range [1:0].
ArrayRangeSize == 2

RECURSIVE sumWidths(_, _)
RECURSIVE maxWidth(_, _)
RECURSIVE getWidth(_, _)
\* DType::getWidth: basic |left-right|+1 or 1, array element width times the
\* range, struct the sum and union the largest of its members, ref and enum
\* the width of the target.
getWidth(map, id) ==
  IF id \notin DOMAIN map THEN 0
  ELSE LET dtype == map[id]
       IN CASE dtype.kind = "basicdtype" -> IF dtype.ranged THEN 2 ELSE 1
            [] dtype.kind = "arraydtype" -> getWidth(map, dtype.sub) * ArrayRangeSize
            [] dtype.kind = "structdtype" -> sumWidths(map, dtype.members)
            [] dtype.kind = "uniondtype" -> maxWidth(map, dtype.members)
            [] dtype.kind \in {"refdtype", "enumdtype"} -> getWidth(map, dtype.sub)
            [] OTHER -> 0

sumWidths(map, ids) ==
  IF ids = <<>> THEN 0
  ELSE getWidth(map, Head(ids)) + sumWidths(map, Tail(ids))

maxWidth(map, ids) ==
  IF ids = <<>> THEN 0
  ELSE LET w == getWidth(map, Head(ids))
           rest == maxWidth(map, Tail(ids))
       IN IF w > rest THEN w ELSE rest

\* ------------------------------------------------------------------------
\* Loader (ReadVerilatorXML).  A loader state is a record
\* [vertex, edges, vars, topName, ok]; ok is FALSE once an XMLException has
\* been thrown.
\* ------------------------------------------------------------------------
addTopPrefix(top, name) ==
  IF top # <<>> /\ ~IsPrefix(top, name)
    THEN top \o <<".">> \o name
    ELSE name

lookupVarVertexExact(vmap, name) ==
  IF name \in DOMAIN vmap THEN vmap[name] ELSE NullVertex

lookupVarVertex(vmap, top, name) ==
  IF name \in DOMAIN vmap THEN vmap[name]
  ELSE IF addTopPrefix(top, name) \in DOMAIN vmap
    THEN vmap[addTopPrefix(top, name)]
    ELSE NullVertex

\* Variant of newVar: the stitched variable keeps its own direction.
newVarKeepingDirection(st, node, scopeParentsEmpty) ==
  LET pos == FindFirstDot(node.name)
      top1 == IF /\ scopeParentsEmpty
                 /\ pos # 0
                 /\ ~IsGeneratedName(node.name)
                 /\ st.topName = <<>>
                THEN SubSeq(node.name, 1, pos - 1)
                ELSE st.topName
      canonicalName == addTopPrefix(top1, node.name)
      v == Len(st.vertex) + 1
      vmap1 == IF canonicalName \in DOMAIN st.vars
                 THEN st.vars
                 ELSE [n \in DOMAIN st.vars \cup {canonicalName} |->
                         IF n = canonicalName THEN v ELSE st.vars[n]]
      publicVertex == lookupVarVertexExact(vmap1, node.origName)
      dtype == IF /\ node.dtype_id \in DOMAIN st.dtypeMappings
                  /\ st.dtypeMappings[node.dtype_id].kind # "null"
                 THEN node.dtype_id
                 ELSE NullDType
      stitch == /\ publicVertex # NullVertex
                /\ publicVertex # v
                /\ isPort(st.vertex[publicVertex])
  IN [st EXCEPT
        !.topName = top1,
        !.vars = vmap1,
        !.dtypeMappings = subscript(@, node.dtype_id),
        !.vertex = Append(@, [ast |-> "VAR", name |-> canonicalName,
                              dir |-> node.dir, dtype |-> dtype]),
        !.edges = IF stitch
                    THEN addEdge(addEdge(@, publicVertex, v), v, publicVertex)
                    ELSE @]

\* newVar for a <var> node; scopeParentsEmpty is scopeParents.empty().
newVar(st, node, scopeParentsEmpty) ==
  LET pos == FindFirstDot(node.name)
      top1 == IF /\ scopeParentsEmpty
                 /\ pos # 0
                 /\ ~IsGeneratedName(node.name)
                 /\ st.topName = <<>>
                THEN SubSeq(node.name, 1, pos - 1)
                ELSE st.topName
      canonicalName == addTopPrefix(top1, node.name)
      v == Len(st.vertex) + 1
      vmap1 == IF canonicalName \in DOMAIN st.vars
                 THEN st.vars
                 ELSE [n \in DOMAIN st.vars \cup {canonicalName} |->
                         IF n = canonicalName THEN v ELSE st.vars[n]]
      publicVertex == lookupVarVertexExact(vmap1, node.origName)
      dtype == IF /\ node.dtype_id \in DOMAIN st.dtypeMappings
                  /\ st.dtypeMappings[node.dtype_id].kind # "null"
                 THEN node.dtype_id
                 ELSE NullDType
      stitch == /\ publicVertex # NullVertex
                /\ publicVertex # v
                /\ isPort(st.vertex[publicVertex])
      dir1 == IF stitch THEN st.vertex[publicVertex].dir ELSE node.dir
  IN [st EXCEPT
        !.topName = top1,
        !.vars = vmap1,
        !.dtypeMappings = subscript(@, node.dtype_id),
        !.vertex = Append(@, [ast |-> "VAR", name |-> canonicalName,
                              dir |-> dir1, dtype |-> dtype]),
        !.edges = IF stitch
                    THEN addEdge(addEdge(@, publicVertex, v), v, publicVertex)
                    ELSE @]

\* Variant of newVarRef: every written variable is flagged dst_reg.
newVarRefFlaggingEveryLValue(st, name, logic) ==
  LET varVertex == lookupVarVertex(st.vars, st.topName, name)
  IN IF ~st.ok THEN st
     ELSE IF varVertex = NullVertex THEN [st EXCEPT !.ok = FALSE]
     ELSE IF st.isLValue
       THEN [st EXCEPT !.edges = addEdge(@, logic, varVertex),
                       !.vertex[varVertex].ast = "DST_REG"]
       ELSE [st EXCEPT !.edges = addEdge(@, varVertex, logic)]

\* newVarRef for a <varref> under the logic vertex logic; the flags isLValue
\* and isDelayedAssign are read as they stand when the node is visited.
newVarRef(st, name, logic) ==
  LET varVertex == lookupVarVertex(st.vars, st.topName, name)
  IN IF ~st.ok THEN st
     ELSE IF varVertex = NullVertex THEN [st EXCEPT !.ok = FALSE]
     ELSE IF st.isLValue
       THEN IF st.isDelayedAssign
         THEN [st EXCEPT !.edges = addEdge(@, logic, varVertex),
                         !.vertex[varVertex].ast = "DST_REG"]
         ELSE [st EXCEPT !.edges = addEdge(@, logic, varVertex)]
       ELSE [st EXCEPT !.edges = addEdge(@, varVertex, logic)]

RECURSIVE visitVarRefs(_, _, _)
\* The varrefs of one child subtree, in document order.
visitVarRefs(st, names, logic) ==
  IF names = <<>> THEN st
  ELSE visitVarRefs(newVarRef(st, Head(names), logic), Tail(names), logic)

isAssignType(ast) ==
  ast \in {"ASSIGN", "ASSIGN_ALIAS", "ASSIGN_DLY", "ASSIGN_W"}

RECURSIVE newStatement(_, _, _)
RECURSIVE iterateChildren(_, _, _)
\* newStatement inside a scope; parent is the enclosing logic vertex
\* (logicParents.top()) or NullVertex.  visitAssignDly raises isDelayedAssign
\* around the call; an assignment raises isLValue around its last child.
newStatement(st, node, parent) ==
  LET v == Len(st.vertex) + 1
      st0 == IF node.ast = "ASSIGN_DLY"
               THEN [st EXCEPT !.isDelayedAssign = TRUE]
               ELSE st
      st1 == [st0 EXCEPT !.vertex = Append(@, [ast |-> node.ast,
                                               name |-> NoName,
                                               dir |-> "none",
                                               dtype |-> NullDType])]
      st2 == IF parent # NullVertex
               THEN [st1 EXCEPT !.edges = addEdge(@, parent, v)]
               ELSE st1
      rvalue == visitVarRefs(st2, node.rhs, v)
      lvalue == visitVarRefs([rvalue EXCEPT !.isLValue = TRUE], node.lhs, v)
      st3 == IF isAssignType(node.ast)
               THEN [lvalue EXCEPT !.isLValue = FALSE]
               ELSE iterateChildren(rvalue, node.body, v)
  IN IF node.ast = "ASSIGN_DLY"
       THEN [st3 EXCEPT !.isDelayedAssign = FALSE]
       ELSE st3

iterateChildren(st, nodes, parent) ==
  IF nodes = <<>> THEN st
  ELSE iterateChildren(newStatement(st, Head(nodes), parent), Tail(nodes), parent)

\* The reader between two nodes of the module: both flags are down, as the
\* constructor leaves them.
LoaderState ==
  [vertex |-> vertex, edges |-> edges, vars |-> vars, topName |-> topName,
   dtypeMappings |-> dtypeMappings, isDelayedAssign |-> FALSE, isLValue |-> FALSE, ok |-> TRUE]

NumVarVertices == Cardinality({v \in 1..Len(vertex) : ~isLogic(vertex[v])})
NumLogicVertices == Cardinality({v \in 1..Len(vertex) : isLogic(vertex[v])})

\* ------------------------------------------------------------------------
\* The walk over general nodes.  A node is [name, var, kids]: its XML name,
\* the name attribute of a <varref>, and its children.  The walker state
\* adds to the loader state currentScope (set or not), currentLogic (a
\* vertex or NullVertex), asserts (whether the build keeps assert) and died.
\* ------------------------------------------------------------------------
AssignNames == {"assign", "assignalias", "assigndly", "assignw", "contassign"}
StatementNames ==
  AssignNames \cup {"always", "alwayspublic", "initial", "instance", "sengate",
                    "senitem", "cfunc"}

\* The vertex type the visitor dispatchVisitor selects hands to newStatement.
dispatchedAstType(name) ==
  CASE name \in {"always", "alwayspublic"} -> "ALWAYS"
    [] name \in {"assign", "assignw", "contassign"} -> "ASSIGN"
    [] name = "assignalias" -> "ASSIGN_ALIAS"
    [] name = "assigndly" -> "ASSIGN_DLY"
    [] name = "initial" -> "INITIAL"
    [] name = "instance" -> "INSTANCE"
    [] name = "sengate" -> "SEN_GATE"
    [] name = "senitem" -> "SEN_ITEM"
    [] name = "cfunc" -> "C_FUNC"

WalkerState(inScope, asserts) ==
  [vertex |-> vertex, edges |-> edges, vars |-> vars, topName |-> topName,
   dtypeMappings |-> dtypeMappings, isDelayedAssign |-> FALSE,
   isLValue |-> FALSE, ok |-> TRUE, currentScope |-> inScope,
   currentLogic |-> NullVertex, asserts |-> asserts, died |-> FALSE]

RECURSIVE dispatchVisitor(_, _)
RECURSIVE dispatchChildren(_, _)
\* iterateChildren: the children in document order, until an exception.
dispatchChildren(st, nodes) ==
  IF nodes = <<>> \/ ~st.ok \/ st.died THEN st
  ELSE dispatchChildren(dispatchVisitor(st, Head(nodes)), Tail(nodes))

\* The two children of an assignment: first_node() as R-value, last_node()
\* as L-value under isLValue.  Without children first_node() is null and the
\* read of its name ends the process.
dispatchAssignChildren(st, kids) ==
  IF kids = <<>> THEN [st EXCEPT !.died = TRUE]
  ELSE LET rvalue == dispatchVisitor(st, kids[1])
           lvalue == dispatchVisitor([rvalue EXCEPT !.isLValue = TRUE],
                                     kids[Len(kids)])
       IN IF ~rvalue.ok \/ rvalue.died THEN rvalue
          ELSE IF ~lvalue.ok \/ lvalue.died THEN lvalue
          ELSE [lvalue EXCEPT !.isLValue = FALSE]

\* newStatement for a general node.
newStatementOf(st, node, vertexType) ==
  IF ~st.currentScope THEN st
  ELSE
    LET v == Len(st.vertex) + 1
        st1 == [st EXCEPT !.vertex = Append(@, [ast |-> vertexType,
                                                name |-> NoName,
                                                dir |-> "none",
                                                dtype |-> NullDType]),
                          !.currentLogic = v]
        st2 == IF st.currentLogic # NullVertex
                 THEN [st1 EXCEPT !.edges = addEdge(@, st.currentLogic, v)]
                 ELSE st1
        st3 == IF isAssignType(vertexType)
                 THEN IF Len(node.kids) # 2 /\ st.asserts
                        THEN [st2 EXCEPT !.died = TRUE]
                        ELSE dispatchAssignChildren(st2, node.kids)
                 ELSE dispatchChildren(st2, node.kids)
    IN IF ~st3.ok \/ st3.died THEN st3
       ELSE [st3 EXCEPT !.currentLogic = st.currentLogic]

\* visitVarRef: newVarRef, whose own iterateChildren is followed by that of
\* visitVarRef.
visitVarRefOf(st, node) ==
  LET st1 == IF ~st.currentScope THEN st
             ELSE IF st.currentLogic = NullVertex THEN [st EXCEPT !.ok = FALSE]
             ELSE dispatchChildren(newVarRef(st, node.var, st.currentLogic),
                                   node.kids)
  IN dispatchChildren(st1, node.kids)

dispatchVisitor(st, node) ==
  IF ~st.ok \/ st.died THEN st
  ELSE IF node.name = "varref" THEN visitVarRefOf(st, node)
  ELSE IF node.name = "assigndly"
    THEN LET st1 == newStatementOf([st EXCEPT !.isDelayedAssign = TRUE], node,
                                   "ASSIGN_DLY")
         IN IF ~st1.ok \/ st1.died THEN st1
            ELSE [st1 EXCEPT !.isDelayedAssign = FALSE]
  ELSE IF node.name = "senitem" /\ st.currentLogic # NullVertex
    THEN dispatchChildren(st, node.kids)
  ELSE IF node.name \in StatementNames
    THEN newStatementOf(st, node, dispatchedAstType(node.name))
  ELSE dispatchChildren(st, node.kids)

\* ------------------------------------------------------------------------
\* splitRegVertices.
\* ------------------------------------------------------------------------
RECURSIVE moveOutEdgesKeepingOriginal(_, _, _, _)
\* Variant of moveOutEdges: add_edge without the remove_edge.
moveOutEdgesKeepingOriginal(es, v, srcRegVertex, adjacentVertices) ==
  IF adjacentVertices = <<>> THEN es
  ELSE moveOutEdgesKeepingOriginal(addEdge(es, srcRegVertex, Head(adjacentVertices)),
                                   v, srcRegVertex, Tail(adjacentVertices))

RECURSIVE moveOutEdges(_, _, _, _)
\* The loop over adjacentVertices: remove_edge(v, adj) then
\* add_edge(srcRegVertex, adj).
moveOutEdges(es, v, srcRegVertex, adjacentVertices) ==
  IF adjacentVertices = <<>> THEN es
  ELSE moveOutEdges(addEdge(removeEdge(es, v, Head(adjacentVertices)),
                            srcRegVertex, Head(adjacentVertices)),
                    v, srcRegVertex, Tail(adjacentVertices))

adjacentVerticesOf(es, v) ==
  LET outs == SelectEdges(es, 1, v)
  IN [k \in 1..Len(outs) |-> outs[k][2]]

\* Variant of splitRegVertex: one edge to the twin for each distinct target.
splitRegVertexDistinctTargets(g, v) ==
  IF isReg(g.vertex[v])
    THEN LET srcRegVertex == Len(g.vertex) + 1
             srcReg == [g.vertex[v] EXCEPT !.ast = "SRC_REG"]
             adjacent == adjacentVerticesOf(g.edges, v)
             firsts == SelectSeq([k \in DOMAIN adjacent |-> <<k, adjacent[k]>>],
                                 LAMBDA e : \A j \in 1..(e[1] - 1) :
                                              adjacent[j] # e[2])
         IN [vertex |-> Append(g.vertex, srcReg),
             edges |-> moveOutEdges(g.edges, v, srcRegVertex,
                                    [k \in DOMAIN firsts |-> firsts[k][2]])]
    ELSE g

\* The body of the loop for one vertex v of the graph g = [vertex, edges].
splitRegVertex(g, v) ==
  IF isReg(g.vertex[v])
    THEN LET srcRegVertex == Len(g.vertex) + 1
             srcReg == [g.vertex[v] EXCEPT !.ast = "SRC_REG"]
         IN [vertex |-> Append(g.vertex, srcReg),
             edges |-> moveOutEdges(g.edges, v, srcRegVertex,
                                    adjacentVerticesOf(g.edges, v))]
    ELSE g

RECURSIVE splitRegVerticesFrom(_, _, _)
\* BGL_FORALL_VERTICES over the vertices present when the loop starts.
splitRegVerticesFrom(g, v, last) ==
  IF v > last THEN g
  ELSE splitRegVerticesFrom(splitRegVertex(g, v), v + 1, last)

splitRegVertices(g) == splitRegVerticesFrom(g, 1, Len(g.vertex))

\* ------------------------------------------------------------------------
\* Actions of the loader and of construction.
\* ------------------------------------------------------------------------
NoQuery == [op |-> "none", waypoints |-> <<>>, avoid |-> <<>>]
NoNode == [node |-> [name |-> "none", var |-> NoName, kids |-> <<>>],
           inScope |-> FALSE, asserts |-> TRUE]
NoResult == [kind |-> "none"]

\* readXML has found a netlist whose only child is one module, has read its
\* typetable and is about to visit the module.
Init ==
  /\ vertex = <<>>
  /\ edges = <<>>
  /\ vars = <<>>
  /\ topName = <<>>
  /\ netlist = <<"module">>
  /\ typetable = LogicTypeTable
  /\ dtypeMappings = visitTypeTable(visitTypeTable(NoTypes, typetable).map,
                                    typetable).map
  /\ pc = "module"
  /\ dispatched = NoNode
  /\ query = NoQuery
  /\ result = NoResult

\* The children of <netlist> before the typetable: modules, interfaces and
\* packages in any order.
MaxChildren == 3
NetlistChildren ==
  UNION {[1..k -> {"module", "iface", "package"}] : k \in 1..MaxChildren}

\* netlistNode->first_node("module"): the place of the first child named
\* module, 0 when there is none.
firstModule(children) ==
  IF \E k \in DOMAIN children : children[k] = "module"
    THEN CHOOSE k \in DOMAIN children :
           /\ children[k] = "module"
           /\ \A j \in 1..(k - 1) : children[j] # "module"
    ELSE 0

\* The counting loop of readXML: from the first module on, over every
\* following sibling.
countChildren(children, name) ==
  LET first == firstModule(children)
  IN IF first = 0 THEN 0
     ELSE Cardinality({k \in first..Len(children) : children[k] = name})

\* The reader is constructed on an empty graph, before readXML.
InitNetlist ==
  /\ vertex = <<>>
  /\ edges = <<>>
  /\ vars = <<>>
  /\ topName = <<>>
  /\ netlist = <<>>
  /\ typetable = LogicTypeTable
  /\ dtypeMappings = <<>>
  /\ pc = "netlist"
  /\ dispatched = NoNode
  /\ query = NoQuery
  /\ result = NoResult

\* readXML up to the test of the counts: the typetable is read, the module
\* is visited when one module and no interface were counted, and skipped
\* otherwise.
ReadXML ==
  \E children \in NetlistChildren :
    /\ pc = "netlist"
    /\ netlist' = children
    /\ pc' = IF /\ countChildren(children, "module") = 1
                /\ countChildren(children, "iface") = 0
               THEN "module"
               ELSE "loaded"
    /\ dtypeMappings' = visitTypeTable(visitTypeTable(NoTypes, typetable).map,
                                       typetable).map
    /\ UNCHANGED <<vertex, edges, vars, topName, typetable, dispatched, query,
                   result>>

\* The type tables read: at most MaxTypes dtype nodes with distinct ids, in
\* any order, whose sub_dtype_ids may name a later node or no node at all.
MaxTypes == 2
MaxMembers == 2
TypeIds == 1..MaxTypes
SubIds == 1..(MaxTypes + 1)

DTypeNodes(id) ==
  {[kind |-> "basicdtype", id |-> id, sub |-> 0, members |-> <<>>, ranged |-> r] :
     r \in BOOLEAN}
  \cup {[kind |-> k, id |-> id, sub |-> sub, members |-> <<>>, ranged |-> FALSE] :
          k \in {"refdtype", "arraydtype", "enumdtype"}, sub \in SubIds}
  \cup {[kind |-> k, id |-> id, sub |-> 0, members |-> m, ranged |-> FALSE] :
          k \in {"structdtype", "uniondtype"},
          m \in UNION {[1..n -> SubIds] : n \in 0..MaxMembers}}
  \cup {[kind |-> "ifacerefdtype", id |-> id, sub |-> 0, members |-> <<>>,
          ranged |-> FALSE]}

\* The ids a node refers to.
subDTypeIds(node) ==
  (IF node.sub = 0 THEN {} ELSE {node.sub})
    \cup {node.members[k] : k \in DOMAIN node.members}

RECURSIVE reachedDTypes(_, _, _)
\* The ids reached from the set ids over at most fuel references.
reachedDTypes(table, ids, fuel) ==
  IF fuel = 0 THEN ids
  ELSE reachedDTypes(table,
                     ids \cup UNION {subDTypeIds(table[k]) :
                                       k \in {j \in DOMAIN table : table[j].id \in ids}},
                     fuel - 1)

\* Types only point downward: no node reaches itself over its references.
isTypeDAG(table) ==
  \A k \in DOMAIN table :
    table[k].id \notin reachedDTypes(table, subDTypeIds(table[k]), Len(table))

TypeTables ==
  {t \in UNION {[1..n -> UNION {DTypeNodes(id) : id \in TypeIds}] : n \in 1..MaxTypes} :
     /\ \A j, k \in DOMAIN t : j # k => t[j].id # t[k].id
     /\ isTypeDAG(t)}

\* readXML has counted one module and is about to read the typetable.
InitTypes ==
  /\ vertex = <<>>
  /\ edges = <<>>
  /\ vars = <<>>
  /\ topName = <<>>
  /\ netlist = <<"module">>
  /\ typetable \in TypeTables
  /\ dtypeMappings = NoTypes
  /\ pc = "typetable"
  /\ dispatched = NoNode
  /\ query = NoQuery
  /\ result = NoResult

\* The first visitTypeTable of readXML.
VisitTypeTableFirst ==
  /\ pc = "typetable"
  /\ LET st == visitTypeTable(dtypeMappings, typetable)
     IN /\ dtypeMappings' = st.map
        /\ pc' = IF st.ok THEN "typetable2" ELSE "failed"
  /\ UNCHANGED <<vertex, edges, vars, topName, netlist, typetable, dispatched,
                 query, result>>

\* The second visitTypeTable of readXML: a sub_dtype_id without a type
\* throws, otherwise the module is visited.
VisitTypeTableSecond ==
  /\ pc = "typetable2"
  /\ LET st == visitTypeTable(dtypeMappings, typetable)
     IN /\ dtypeMappings' = st.map
        /\ pc' = IF st.ok THEN "module" ELSE "failed"
  /\ UNCHANGED <<vertex, edges, vars, topName, netlist, typetable, dispatched,
                 query, result>>

\* <var> nodes of every dtype_id a node can carry.
TypedVarNodes ==
  {[name |-> n, dir |-> "none", origName |-> n, dtype_id |-> id] :
     n \in {NameI}, id \in SubIds}

\* visitVar for one <var> child of the module, before the top scope.
visitVar(node) ==
  /\ pc = "module"
  /\ NumVarVertices < MaxVars
  /\ LET st == newVar(LoaderState, node, TRUE)
     IN /\ vertex' = st.vertex
        /\ edges' = st.edges
        /\ vars' = st.vars
        /\ topName' = st.topName
        /\ dtypeMappings' = st.dtypeMappings
  /\ UNCHANGED <<netlist, typetable, dispatched, pc, query, result>>

VisitTypedVar == \E node \in TypedVarNodes : visitVar(node)

\* The <var> children in the elaborator's order.
VisitVar ==
  \E node \in VarNodes :
    /\ \A v \in 1..Len(vertex) :
         \A m \in VarNodes : m.name = vertex[v].name => DeclOrder(m) < DeclOrder(node)
    /\ visitVar(node)

\* The <var> children in any order, repeated declarations included.
VisitAnyVar == \E node \in VarNodes : visitVar(node)

\* The <var> children of a module whose local names are bare, dotted,
\* generated, or begin with the characters of the top name.
PrefixVarNodes ==
  { [name |-> n, dir |-> d, origName |-> n, dtype_id |-> 1] :
      n \in {NameI, NameA, <<"b">>, <<"t", "b">>, <<"_", "_", "V">>},
      d \in {"none"} }
  \cup {[name |-> NameI, dir |-> "input", origName |-> NameI, dtype_id |-> 1]}

VisitPrefixVar == \E node \in PrefixVarNodes : visitVar(node)

\* visitScope: the walk enters <topscope>/<scope>.
VisitScope ==
  /\ pc = "module"
  /\ pc' = "scope"
  /\ UNCHANGED <<netlist, typetable, dispatched, dtypeMappings, vertex, edges, vars, topName, query, result>>

\* A statement node met inside the scope, with its whole subtree.  A varref
\* to an unknown variable throws and the construction fails.
visitStatement(node) ==
  /\ pc = "scope"
  /\ NumLogicVertices + NumStatements(node) <= MaxLogic
  /\ LET st == newStatement(LoaderState, node, NullVertex)
     IN IF st.ok
          THEN /\ vertex' = st.vertex
               /\ edges' = st.edges
               /\ pc' = pc
          ELSE /\ pc' = "failed"
               /\ UNCHANGED <<vertex, edges>>
  /\ UNCHANGED <<netlist, typetable, dispatched, dtypeMappings, vars, topName, query, result>>

VisitStatement == \E node \in StmtNodes : visitStatement(node)

VisitAnyStatement == \E node \in AnyStmtNodes : visitStatement(node)

\* The nodes of the general walk: varrefs, assignments of zero to three
\* children, other statements with and without nested statements, and a
\* node no visitor handles.
VarRefNode(name) == [name |-> "varref", var |-> name, kids |-> <<>>]
Node(name, kids) == [name |-> name, var |-> NoName, kids |-> kids]
WalkRefs == {VarRefNode(NameI), VarRefNode(NameO)}
AssignKids ==
  {<<>>, <<VarRefNode(NameI)>>, <<VarRefNode(NameO)>>,
   <<VarRefNode(NameI), VarRefNode(NameO)>>,
   <<VarRefNode(NameI), VarRefNode(NameI), VarRefNode(NameO)>>}
StatementKids ==
  {<<>>, <<VarRefNode(NameI)>>,
   <<Node("assigndly", <<VarRefNode(NameI), VarRefNode(NameO)>>)>>,
   <<Node("senitem", <<VarRefNode(NameI)>>)>>,
   <<Node("assignw", <<VarRefNode(NameI), VarRefNode(NameO)>>),
     VarRefNode(NameI)>>}
WalkNodes ==
  WalkRefs
    \cup {Node(n, k) : n \in AssignNames, k \in AssignKids}
    \cup {Node(n, k) : n \in StatementNames \ AssignNames, k \in StatementKids}
    \cup {Node("if", <<VarRefNode(NameI)>>)}

RECURSIVE NumStatementNodes(_)
RECURSIVE NumStatementsIn(_)
\* The statement nodes of a tree: an upper bound of the vertices it adds.
NumStatementNodes(node) ==
  (IF node.name \in StatementNames THEN 1 ELSE 0) + NumStatementsIn(node.kids)
NumStatementsIn(nodes) ==
  IF nodes = <<>> THEN 0
  ELSE NumStatementNodes(Head(nodes)) + NumStatementsIn(Tail(nodes))

\* dispatchVisitor on one child of the module (outside the scope) or of the
\* scope, with its whole subtree.
dispatch(node, inScope, asserts) ==
  /\ NumLogicVertices + NumStatementNodes(node) <= MaxLogic
  /\ LET st == dispatchVisitor(WalkerState(inScope, asserts), node)
     IN IF st.died THEN pc' = "died" /\ UNCHANGED <<vertex, edges>>
        ELSE IF ~st.ok THEN pc' = "failed" /\ UNCHANGED <<vertex, edges>>
        ELSE /\ vertex' = st.vertex
             /\ edges' = st.edges
             /\ pc' = pc
  /\ dispatched' = [node |-> node, inScope |-> inScope, asserts |-> asserts]
  /\ UNCHANGED <<netlist, typetable, dtypeMappings, vars, topName, query, result>>

\* visitModule's iterateChildren reaches the node: currentScope is null.
DispatchInModule ==
  \E node \in WalkNodes, asserts \in BOOLEAN :
    /\ pc = "module"
    /\ dispatch(node, FALSE, asserts)

\* visitScope's iterateChildren reaches the node: currentScope is set.
DispatchInScope ==
  \E node \in WalkNodes, asserts \in BOOLEAN :
    /\ pc = "scope"
    /\ dispatch(node, TRUE, asserts)

\* The name attribute of the module readXML visited.
TopModuleNames == {"TOP", "top"}

\* readXML after visitModule: a module not named TOP throws, otherwise
\* readXML returns.
EndLoad ==
  \E name \in TopModuleNames :
    /\ pc \in {"module", "scope"}
    /\ pc' = IF name # "TOP" THEN "failed" ELSE "loaded"
    /\ UNCHANGED <<netlist, typetable, dispatched, dtypeMappings, vertex, edges, vars, topName, query, result>>

\* Netlist::Netlist after the load: graph.splitRegVertices().
SplitRegVertices ==
  /\ pc = "loaded"
  /\ LET g == splitRegVertices([vertex |-> vertex, edges |-> edges])
     IN /\ vertex' = g.vertex
        /\ edges' = g.edges
  /\ pc' = "ready"
  /\ UNCHANGED <<netlist, typetable, dispatched, dtypeMappings, vars, topName, query, result>>

\* ------------------------------------------------------------------------
\* Name resolution (Graph::getVertices, Netlist::get*Vertex).  The options
\* are at their defaults: match mode exact, match-any off.
\* ------------------------------------------------------------------------
isMatchExact == TRUE
isMatchAnyVertex == FALSE

isGraphType(vx, graphType) ==
  CASE graphType = "START_POINT" -> isStartPoint(vx)
    [] graphType = "END_POINT"   -> isFinishPoint(vx)
    [] graphType = "MID_POINT"   -> isMidPoint(vx)
    [] OTHER -> FALSE

vertexTypeMatch(vs, v, graphType) ==
  IF graphType = "ANY" THEN TRUE
  ELSE IF graphType = "REG" THEN isDstReg(vs[v])
  ELSE isGraphType(vs[v], graphType)

\* The first vertex in id order of the requested type with that name.
getVertexExact(vs, name, graphType) ==
  LET matching == {v \in 1..Len(vs) :
                     vertexTypeMatch(vs, v, graphType) /\ vs[v].name = name}
  IN IF matching = {} THEN NullVertex
     ELSE CHOOSE v \in matching : \A w \in matching : v <= w

getVertices(vs, name, graphType) ==
  IF isMatchExact
    THEN LET v == getVertexExact(vs, name, graphType)
         IN IF v # NullVertex THEN <<v>> ELSE <<>>
    ELSE <<>>

\* getStartVertex, getEndVertex and getMidVertex share this body.
getTypedVertex(vs, name, graphType, matchAny) ==
  LET vertices == getVertices(vs, name, graphType)
  IN IF ~matchAny
       THEN IF Len(vertices) > 1 THEN -1
            ELSE IF Len(vertices) = 1 THEN vertices[1]
            ELSE NullVertex
       ELSE IF Len(vertices) > 0 THEN vertices[1] ELSE NullVertex

getStartVertex(vs, name, matchAny) == getTypedVertex(vs, name, "START_POINT", matchAny)
getEndVertex(vs, name, matchAny) == getTypedVertex(vs, name, "END_POINT", matchAny)
getMidVertex(vs, name, matchAny) == getTypedVertex(vs, name, "MID_POINT", matchAny)

\* ------------------------------------------------------------------------
\* Name resolution under any options: match mode, ignore-hierarchy-markers
\* and the matchAny argument of Netlist::get*Vertex.
\* ------------------------------------------------------------------------
MatchModes == {"exact", "regex", "wildcard"}
OptionSets == [matchMode : MatchModes, ignoreHierarchyMarkers : BOOLEAN]

\* std::replace of every character of chars by to.
replaceChars(str, chars, to) ==
  [k \in DOMAIN str |-> IF str[k] \in chars THEN to ELSE str[k]]

RECURSIVE wildcardMatch(_, _)
\* '?' matches one character, '*' any run of characters.
wildcardMatch(str, pattern) ==
  IF pattern = <<>> THEN str = <<>>
  ELSE IF Head(pattern) = "*"
    THEN \/ wildcardMatch(str, Tail(pattern))
         \/ str # <<>> /\ wildcardMatch(Tail(str), pattern)
  ELSE /\ str # <<>>
       /\ Head(pattern) \in {"?", Head(str)}
       /\ wildcardMatch(Tail(str), Tail(pattern))

\* std::regex::assign accepts the pattern: no '*' without an atom before it.
regexValid(pattern) ==
  \A k \in DOMAIN pattern :
    pattern[k] = "*" => (k > 1 /\ pattern[k - 1] # "*")

RECURSIVE regexMatchHere(_, _)
RECURSIVE regexMatchStar(_, _, _)
\* The pattern matches a prefix of str; patterns are made of literal
\* characters, '.' and a postfix '*'.
regexMatchHere(pattern, str) ==
  IF pattern = <<>> THEN TRUE
  ELSE IF Len(pattern) >= 2 /\ pattern[2] = "*"
    THEN regexMatchStar(pattern[1], Tail(Tail(pattern)), str)
  ELSE /\ str # <<>>
       /\ pattern[1] \in {".", Head(str)}
       /\ regexMatchHere(Tail(pattern), Tail(str))

regexMatchStar(c, pattern, str) ==
  \/ regexMatchHere(pattern, str)
  \/ /\ str # <<>>
     /\ c \in {".", Head(str)}
     /\ regexMatchStar(c, pattern, Tail(str))

\* std::regex_search: the pattern matches somewhere in str.
regexSearch(str, pattern) ==
  \E k \in 0..Len(str) : regexMatchHere(pattern, SubSeq(str, k + 1, Len(str)))

\* BGL_FORALL_VERTICES: the vertex ids in the order the loop meets them.
forallVertices(vs) == [v \in 1..Len(vs) |-> v]

getVerticesWildcard(opt, vs, name, graphType) ==
  LET nameStr == IF opt.ignoreHierarchyMarkers
                   THEN replaceChars(name, {"/", ".", "_"}, "?")
                   ELSE name
  IN SelectSeq(forallVertices(vs),
               LAMBDA v : /\ vertexTypeMatch(vs, v, graphType)
                          /\ wildcardMatch(vs[v].name, nameStr))

\* getVerticesRegex: the matching ids, or Malformed when the pattern throws.
Malformed == <<-3>>

\* Variant of getVerticesRegex: only '/' is replaced, '_' is left as it is.
getVerticesRegexKeepingUnderscore(opt, vs, name, graphType) ==
  LET nameStr == IF opt.ignoreHierarchyMarkers
                   THEN replaceChars(name, {"/"}, ".")
                   ELSE name
  IN IF ~regexValid(nameStr) THEN Malformed
     ELSE SelectSeq(forallVertices(vs),
                    LAMBDA v : /\ vertexTypeMatch(vs, v, graphType)
                               /\ regexSearch(vs[v].name, nameStr))

getVerticesRegex(opt, vs, name, graphType) ==
  LET nameStr == IF opt.ignoreHierarchyMarkers
                   THEN replaceChars(name, {"/", "_"}, ".")
                   ELSE name
  IN IF ~regexValid(nameStr) THEN Malformed
     ELSE SelectSeq(forallVertices(vs),
                    LAMBDA v : /\ vertexTypeMatch(vs, v, graphType)
                               /\ regexSearch(vs[v].name, nameStr))

\* Graph::getVertices with the options given.
getVerticesUnder(opt, vs, name, graphType) ==
  IF opt.matchMode = "exact"
    THEN LET v == getVertexExact(vs, name, graphType)
         IN IF v # NullVertex THEN <<v>> ELSE <<>>
  ELSE IF opt.matchMode = "regex" THEN getVerticesRegex(opt, vs, name, graphType)
  ELSE IF opt.matchMode = "wildcard"
    THEN getVerticesWildcard(opt, vs, name, graphType)
  ELSE <<>>

\* The body shared by Netlist::getStartVertex, getEndVertex and
\* getMidVertex: the vertex, nullVertex, or the exception thrown.
MultipleMatches(vertices) ==
  [kind |-> "exception", what |-> "multiple", candidates |-> vertices]
MalformedPattern == [kind |-> "exception", what |-> "malformed"]
Found(v) == [kind |-> "vertex", value |-> v]

getTypedVertexUnder(opt, vs, name, graphType, matchAny) ==
  LET vertices == getVerticesUnder(opt, vs, name, graphType)
  IN IF vertices = Malformed THEN MalformedPattern
     ELSE IF ~matchAny
       THEN IF Len(vertices) > 1 THEN MultipleMatches(vertices)
            ELSE IF Len(vertices) = 1 THEN Found(vertices[1])
            ELSE Found(NullVertex)
     ELSE IF Len(vertices) > 0 THEN Found(vertices[1]) ELSE Found(NullVertex)

\* readWaypoints: the ids of the waypoints, or <<-1>> when a lookup throws.
Thrown == <<-1>>

\* Variant of waypointVertex: every waypoint looked up as a mid point.
waypointVertexAsMidPoint(vs, names, k) ==
  getMidVertex(vs, names[k], isMatchAnyVertex)

waypointVertex(vs, names, k) ==
  IF k = 1 THEN getStartVertex(vs, names[k], isMatchAnyVertex)
  ELSE IF k = Len(names) THEN getEndVertex(vs, names[k], isMatchAnyVertex)
  ELSE getMidVertex(vs, names[k], isMatchAnyVertex)

readWaypoints(vs, names) ==
  LET ids == [k \in 1..Len(names) |-> waypointVertex(vs, names, k)]
  IN IF \E k \in 1..Len(names) : ids[k] \in {NullVertex, -1}
       THEN Thrown
       ELSE ids

RECURSIVE insertSorted(_, _)
insertSorted(sorted, x) ==
  IF sorted = <<>> THEN <<x>>
  ELSE IF x <= Head(sorted) THEN <<x>> \o sorted
  ELSE <<Head(sorted)>> \o insertSorted(Tail(sorted), x)

RECURSIVE sortIDs(_)
\* std::sort of a vector of vertex ids.
sortIDs(ids) ==
  IF ids = <<>> THEN <<>>
  ELSE insertSorted(sortIDs(Tail(ids)), Head(ids))

\* Variant of readAvoidPoints: a name without a vertex is left out.
readAvoidPointsSkippingUnknown(vs, names) ==
  LET ids == [k \in 1..Len(names) |-> getMidVertex(vs, names[k], isMatchAnyVertex)]
  IN sortIDs(SelectSeq(ids, LAMBDA v : v \notin {NullVertex, -1}))

readAvoidPoints(vs, names) ==
  LET ids == [k \in 1..Len(names) |-> getMidVertex(vs, names[k], isMatchAnyVertex)]
  IN IF \E k \in 1..Len(names) : ids[k] \in {NullVertex, -1}
       THEN Thrown
       ELSE sortIDs(ids)

\* ------------------------------------------------------------------------
\* Depth-first search (boost::depth_first_search with DfsVisitor).
\* A view is [edges, n, reverse, avoid, allPaths]; a search state is
\* [color, order, parentMap] where color is the set of discovered vertices
\* and order lists them as discover_vertex met them.
\* ------------------------------------------------------------------------
\* VertexPredicate: the vertex is kept unless it is found in the sorted
\* avoid ids.
VertexPredicate(avoidPointIDs, v) ==
  ~(\E k \in 1..Len(avoidPointIDs) : avoidPointIDs[k] = v)

RECURSIVE filterTargets(_, _)
filterTargets(targets, avoidPointIDs) ==
  IF targets = <<>> THEN <<>>
  ELSE IF VertexPredicate(avoidPointIDs, Head(targets))
    THEN <<Head(targets)>> \o filterTargets(Tail(targets), avoidPointIDs)
    ELSE filterTargets(Tail(targets), avoidPointIDs)

\* The targets of the out-edges of u in the view, in edge order: the
\* out-edges whose target passes the vertex predicate, or (reverse graph) the
\* sources of the in-edges.
viewAdjacent(view, u) ==
  IF view.reverse
    THEN LET ins == SelectEdges(view.edges, 2, u)
         IN [k \in 1..Len(ins) |-> ins[k][1]]
    ELSE filterTargets(adjacentVerticesOf(view.edges, u), view.avoid)

RECURSIVE dfsVisit(_, _, _)
RECURSIVE dfsEdges(_, _, _, _)
RECURSIVE dfsEdgesRecordingEveryEdge(_, _, _, _)
\* Variant of dfsEdges: the parent is recorded at every examined edge,
\* whatever the mode.
dfsEdgesRecordingEveryEdge(view, st, u, targets) ==
  IF targets = <<>> THEN st
  ELSE LET w == Head(targets)
           st1 == [st EXCEPT !.parentMap[w] = Append(@, u)]
       IN IF w \notin st1.color
            THEN dfsEdgesRecordingEveryEdge(view, dfsVisit(view, st1, w), u,
                                            Tail(targets))
            ELSE dfsEdgesRecordingEveryEdge(view, st1, u, Tail(targets))

\* depth_first_visit_impl: discover u, then examine its out-edges in order.
dfsVisit(view, st, u) ==
  dfsEdges(view, [st EXCEPT !.color = @ \cup {u}, !.order = Append(@, u)], u,
           viewAdjacent(view, u))

dfsEdges(view, st, u, targets) ==
  IF targets = <<>> THEN st
  ELSE LET w == Head(targets)
           \* examine_edge
           st1 == IF view.allPaths
                    THEN [st EXCEPT !.parentMap[w] = Append(@, u)]
                    ELSE st
       IN IF w \notin st1.color
            THEN \* tree_edge, then descend
                 LET st2 == IF ~view.allPaths
                              THEN [st1 EXCEPT !.parentMap[w] = Append(@, u)]
                              ELSE st1
                 IN dfsEdges(view, dfsVisit(view, st2, w), u, Tail(targets))
            ELSE dfsEdges(view, st1, u, Tail(targets))

RECURSIVE dfsRoots(_, _, _)
\* The loop over vertices(g): every vertex of the view still white starts a
\* new tree.
dfsRoots(view, st, v) ==
  IF v > view.n THEN st
  ELSE IF VertexPredicate(view.avoid, v) /\ v \notin st.color
    THEN dfsRoots(view, dfsVisit(view, st, v), v + 1)
    ELSE dfsRoots(view, st, v + 1)

defaultStartingVertex(view) ==
  LET kept == {v \in 1..view.n : VertexPredicate(view.avoid, v)}
  IN IF kept = {} THEN NullVertex
     ELSE CHOOSE v \in kept : \A w \in kept : v <= w

\* depth_first_search(view, visitor(DfsVisitor(parentMap, allPaths))
\*                            .root_vertex(start)): the parent map.
depthFirstSearchFrom(view, start) ==
  LET st0 == [color |-> {}, order |-> <<>>,
              parentMap |-> [v \in 1..view.n |-> <<>>]]
      st1 == IF start # defaultStartingVertex(view)
               THEN dfsVisit(view, st0, start)
               ELSE st0
  IN dfsRoots(view, st1, 1)

depthFirstSearch(view, start) == depthFirstSearchFrom(view, start).parentMap

Reverse(seq) == [k \in 1..Len(seq) |-> seq[Len(seq) + 1 - k]]
Contains(seq, x) == \E k \in 1..Len(seq) : seq[k] = x

\* ------------------------------------------------------------------------
\* Path reconstruction.
\* ------------------------------------------------------------------------
AssertionFailed == <<-2>>

RECURSIVE determinePathWithoutEmptyTest(_, _, _, _)
\* Variant of determinePath: a vertex without a parent ends the climb with
\* the path so far.
determinePathWithoutEmptyTest(parentMap, path, startVertex, finishVertex) ==
  LET path1 == Append(path, finishVertex)
  IN IF finishVertex = startVertex THEN path1
     ELSE IF parentMap[finishVertex] = <<>> THEN path1
     ELSE IF Len(parentMap[finishVertex]) # 1 THEN AssertionFailed
     ELSE LET nextVertex == parentMap[finishVertex][1]
          IN IF Contains(path1, nextVertex) THEN AssertionFailed
             ELSE determinePathWithoutEmptyTest(parentMap, path1, startVertex,
                                                nextVertex)

RECURSIVE determinePath(_, _, _, _)
determinePath(parentMap, path, startVertex, finishVertex) ==
  LET path1 == Append(path, finishVertex)
  IN IF finishVertex = startVertex THEN path1
     ELSE IF parentMap[finishVertex] = <<>> THEN <<>>
     ELSE IF Len(parentMap[finishVertex]) # 1 THEN AssertionFailed
     ELSE LET nextVertex == parentMap[finishVertex][1]
          IN IF Contains(path1, nextVertex) THEN AssertionFailed
             ELSE determinePath(parentMap, path1, startVertex, nextVertex)

RECURSIVE determineAllPaths(_, _, _, _, _)
RECURSIVE determineAllPathsLoop(_, _, _, _, _)
\* Returns the result vector after the call.
determineAllPaths(parentMap, res, path, startVertex, finishVertex) ==
  LET path1 == Append(path, finishVertex)
  IN IF finishVertex = startVertex THEN Append(res, path1)
     ELSE determineAllPathsLoop(parentMap, res, path1, startVertex,
                                parentMap[finishVertex])

\* The loop over parentMap[finishVertex].
determineAllPathsLoop(parentMap, res, path, startVertex, parents) ==
  IF parents = <<>> THEN res
  ELSE LET res1 == IF ~Contains(path, Head(parents))
                     THEN determineAllPaths(parentMap, res, path, startVertex,
                                            Head(parents))
                     ELSE res
       IN determineAllPathsLoop(parentMap, res1, path, startVertex, Tail(parents))

RECURSIVE determineAllPathsEntered(_, _, _, _, _)
RECURSIVE determineAllPathsEnteredUntested(_, _, _, _, _)
RECURSIVE determineAllPathsEnteredLoop(_, _, _, _, _)
\* Variant of determineAllPathsEnteredLoop: every parent is entered, on the
\* path or not.
determineAllPathsEnteredUntested(parentMap, entered, path, startVertex, parents) ==
  IF parents = <<>> THEN entered
  ELSE determineAllPathsEnteredUntested(
         parentMap,
         determineAllPathsEntered(parentMap, entered, path, startVertex,
                                  Head(parents)),
         path, startVertex, Tail(parents))

\* determineAllPaths with the log of its calls: the path of every call after
\* its push_back, in call order (the paths the INFO lines dump, and the
\* paths found).  The recursion is unrolled to one vertex more than the
\* graph has, so that a deeper recursion shows as a path of that length.
determineAllPathsEntered(parentMap, entered, path, startVertex, finishVertex) ==
  LET path1 == Append(path, finishVertex)
      entered1 == Append(entered, path1)
  IN IF finishVertex = startVertex THEN entered1
     ELSE IF Len(path1) > Len(parentMap) THEN entered1
     ELSE determineAllPathsEnteredLoop(parentMap, entered1, path1, startVertex,
                                       parentMap[finishVertex])

\* The loop over parentMap[finishVertex].
determineAllPathsEnteredLoop(parentMap, entered, path, startVertex, parents) ==
  IF parents = <<>> THEN entered
  ELSE LET entered1 ==
             IF ~Contains(path, Head(parents))
               THEN determineAllPathsEntered(parentMap, entered, path,
                                             startVertex, Head(parents))
               ELSE entered
       IN determineAllPathsEnteredLoop(parentMap, entered1, path, startVertex,
                                       Tail(parents))

\* ------------------------------------------------------------------------
\* Queries of Graph.
\* ------------------------------------------------------------------------
GraphView(vs, es, reverse, avoid, allPaths) ==
  [edges |-> es, n |-> Len(vs), reverse |-> reverse, avoid |-> avoid,
   allPaths |-> allPaths]

RECURSIVE fanOutFromUnreversed(_, _, _, _, _)
\* Variant of fanOutFrom: the path kept as determinePath returns it.
fanOutFromUnreversed(vs, parentMap, startVertex, v, paths) ==
  IF v > Len(vs) THEN paths
  ELSE LET path == IF isFinishPoint(vs[v])
                     THEN determinePath(parentMap, <<>>, startVertex, v)
                     ELSE <<>>
       IN fanOutFromUnreversed(vs, parentMap, startVertex, v + 1,
                               IF path # <<>> THEN Append(paths, path) ELSE paths)

RECURSIVE fanOutFromNewestFirst(_, _, _, _, _)
\* Variant of fanOutFrom: each path is put in front of the earlier ones.
fanOutFromNewestFirst(vs, parentMap, startVertex, v, paths) ==
  IF v > Len(vs) THEN paths
  ELSE LET path == IF isFinishPoint(vs[v])
                     THEN determinePath(parentMap, <<>>, startVertex, v)
                     ELSE <<>>
       IN fanOutFromNewestFirst(vs, parentMap, startVertex, v + 1,
                                IF path # <<>> THEN <<Reverse(path)>> \o paths
                                ELSE paths)

RECURSIVE fanOutFrom(_, _, _, _, _)
\* The loop of getAllFanOut over the vertices from v on.
fanOutFrom(vs, parentMap, startVertex, v, paths) ==
  IF v > Len(vs) THEN paths
  ELSE LET path == IF isFinishPoint(vs[v])
                     THEN determinePath(parentMap, <<>>, startVertex, v)
                     ELSE <<>>
       IN fanOutFrom(vs, parentMap, startVertex, v + 1,
                     IF path # <<>> THEN Append(paths, Reverse(path)) ELSE paths)

getAllFanOut(vs, es, startVertex) ==
  fanOutFrom(vs,
             depthFirstSearch(GraphView(vs, es, FALSE, <<>>, FALSE), startVertex),
             startVertex, 1, <<>>)

RECURSIVE fanInFromReversed(_, _, _, _, _)
\* Variant of fanInFrom: the path reversed as getAllFanOut reverses it.
fanInFromReversed(vs, parentMap, finishVertex, v, paths) ==
  IF v > Len(vs) THEN paths
  ELSE LET path == IF isStartPoint(vs[v])
                     THEN determinePath(parentMap, <<>>, finishVertex, v)
                     ELSE <<>>
       IN fanInFromReversed(vs, parentMap, finishVertex, v + 1,
                            IF path # <<>> THEN Append(paths, Reverse(path))
                            ELSE paths)

RECURSIVE fanInFrom(_, _, _, _, _)
\* The loop of getAllFanIn over the vertices from v on.
fanInFrom(vs, parentMap, finishVertex, v, paths) ==
  IF v > Len(vs) THEN paths
  ELSE LET path == IF isStartPoint(vs[v])
                     THEN determinePath(parentMap, <<>>, finishVertex, v)
                     ELSE <<>>
       IN fanInFrom(vs, parentMap, finishVertex, v + 1,
                    IF path # <<>> THEN Append(paths, path) ELSE paths)

getAllFanIn(vs, es, finishVertex) ==
  fanInFrom(vs,
            depthFirstSearch(GraphView(vs, es, TRUE, <<>>, FALSE), finishVertex),
            finishVertex, 1, <<>>)

\* Variant of appendStage: the sub path appended whole.
appendStageKeepingJoin(resultPaths, stagePaths) ==
  [k \in 1..(Len(resultPaths) * Len(stagePaths)) |->
     LET r == ((k - 1) \div Len(stagePaths)) + 1
         p == ((k - 1) % Len(stagePaths)) + 1
     IN resultPaths[r] \o Reverse(stagePaths[p])]

\* The inner loops of pathProduct for one stage: every result path extended
\* by every reversed sub path without its last element.
appendStage(resultPaths, stagePaths) ==
  [k \in 1..(Len(resultPaths) * Len(stagePaths)) |->
     LET r == ((k - 1) \div Len(stagePaths)) + 1
         p == ((k - 1) % Len(stagePaths)) + 1
         path == Reverse(stagePaths[p])
     IN resultPaths[r] \o SubSeq(path, 1, Len(path) - 1)]

RECURSIVE pathProductFrom(_, _)
pathProductFrom(resultPaths, intPaths) ==
  IF intPaths = <<>> THEN resultPaths
  ELSE pathProductFrom(appendStage(resultPaths, Head(intPaths)), Tail(intPaths))

pathProduct(intPaths) == pathProductFrom(<< <<>> >>, intPaths)

\* The paths of stage i of getAllPointToPoint.
stagePathsOf(vs, es, waypointIDs, avoidPointIDs, i) ==
  determineAllPaths(
    depthFirstSearch(GraphView(vs, es, FALSE, avoidPointIDs, TRUE), waypointIDs[i]),
    <<>>, <<>>, waypointIDs[i], waypointIDs[i + 1])

getAllPointToPoint(vs, es, waypointIDs, avoidPointIDs) ==
  LET intPaths == [i \in 1..(Len(waypointIDs) - 1) |->
                     stagePathsOf(vs, es, waypointIDs, avoidPointIDs, i)]
  IN IF \E i \in 1..Len(intPaths) : intPaths[i] = <<>>
       THEN <<>>
       ELSE LET paths == pathProduct(intPaths)
            IN [k \in 1..Len(paths) |->
                  Append(paths[k], waypointIDs[Len(waypointIDs)])]

\* The sub path of stage i of getAnyPointToPoint, as determinePath returns it.
subPathOf(vs, es, waypointIDs, avoidPointIDs, i) ==
  determinePath(
    depthFirstSearch(GraphView(vs, es, FALSE, avoidPointIDs, FALSE), waypointIDs[i]),
    <<>>, waypointIDs[i], waypointIDs[i + 1])

RECURSIVE anyPointToPointKeepingJoin(_, _, _, _, _, _)
\* Variant of anyPointToPointFrom: the sub path inserted whole.
anyPointToPointKeepingJoin(vs, es, waypointIDs, avoidPointIDs, i, path) ==
  IF i > Len(waypointIDs) - 1
    THEN Append(path, waypointIDs[Len(waypointIDs)])
    ELSE LET subPath == subPathOf(vs, es, waypointIDs, avoidPointIDs, i)
         IN IF subPath = <<>> THEN <<>>
            ELSE IF subPath = AssertionFailed THEN AssertionFailed
            ELSE anyPointToPointKeepingJoin(vs, es, waypointIDs, avoidPointIDs,
                                            i + 1, path \o Reverse(subPath))

RECURSIVE anyPointToPointFrom(_, _, _, _, _, _)
\* The loop of getAnyPointToPoint from stage i on.
anyPointToPointFrom(vs, es, waypointIDs, avoidPointIDs, i, path) ==
  IF i > Len(waypointIDs) - 1
    THEN Append(path, waypointIDs[Len(waypointIDs)])
    ELSE LET subPath == subPathOf(vs, es, waypointIDs, avoidPointIDs, i)
         IN IF subPath = <<>> THEN <<>>
            ELSE IF subPath = AssertionFailed THEN AssertionFailed
            ELSE LET rev == Reverse(subPath)
                 IN anyPointToPointFrom(vs, es, waypointIDs, avoidPointIDs, i + 1,
                                        path \o SubSeq(rev, 1, Len(rev) - 1))

getAnyPointToPoint(vs, es, waypointIDs, avoidPointIDs) ==
  anyPointToPointFrom(vs, es, waypointIDs, avoidPointIDs, 1, <<>>)

\* ------------------------------------------------------------------------
\* Queries of Netlist, as actions.  A query names its waypoints and avoid
\* points; the result is a value or an exception.
\* ------------------------------------------------------------------------
QueryNames == {NameI, NameO, NameA}

SeqsUpTo(S, lo, hi) == UNION {[1..k -> S] : k \in lo..hi}

WaypointInputs == SeqsUpTo(QueryNames, 0, MaxWaypoints)
AvoidInputs == SeqsUpTo(QueryNames, 0, MaxAvoid)

Exception == [kind |-> "exception"]

\* What a build can do once waypointIDs.size() - 1 has wrapped round on an
\* empty vector and waypointIDs[0] is read: the process dies of a memory
\* fault, or the search runs on whatever ids were read.
UndefinedBehaviour == {[kind |-> "crash"], [kind |-> "undefined"]}

PathExists ==
  \E w \in WaypointInputs, a \in AvoidInputs :
    /\ pc = "ready"
    /\ pc' = "answered"
    /\ query' = [op |-> "path_exists", waypoints |-> w, avoid |-> a]
    /\ LET waypointIDs == readWaypoints(vertex, w)
           avoidPointIDs == readAvoidPoints(vertex, a)
       IN result' \in
            IF waypointIDs = Thrown \/ avoidPointIDs = Thrown THEN {Exception}
            ELSE IF waypointIDs = <<>> THEN UndefinedBehaviour
            ELSE {[kind |-> "bool",
                   value |-> getAnyPointToPoint(vertex, edges, waypointIDs,
                                                avoidPointIDs) # <<>>]}
    /\ UNCHANGED <<netlist, typetable, dispatched, dtypeMappings, vertex, edges, vars, topName>>

GetAnyPath ==
  \E w \in WaypointInputs, a \in AvoidInputs :
    /\ pc = "ready"
    /\ pc' = "answered"
    /\ query' = [op |-> "any_path", waypoints |-> w, avoid |-> a]
    /\ LET waypointIDs == readWaypoints(vertex, w)
           avoidPointIDs == readAvoidPoints(vertex, a)
       IN result' \in
            IF waypointIDs = Thrown \/ avoidPointIDs = Thrown THEN {Exception}
            ELSE IF waypointIDs = <<>> THEN UndefinedBehaviour
            ELSE {[kind |-> "path",
                   value |-> getAnyPointToPoint(vertex, edges, waypointIDs,
                                                avoidPointIDs)]}
    /\ UNCHANGED <<netlist, typetable, dispatched, dtypeMappings, vertex, edges, vars, topName>>

GetAllPaths ==
  \E w \in WaypointInputs, a \in AvoidInputs :
    /\ pc = "ready"
    /\ pc' = "answered"
    /\ query' = [op |-> "all_paths", waypoints |-> w, avoid |-> a]
    /\ LET waypointIDs == readWaypoints(vertex, w)
           avoidPointIDs == readAvoidPoints(vertex, a)
       IN result' \in
            IF waypointIDs = Thrown \/ avoidPointIDs = Thrown THEN {Exception}
            ELSE IF waypointIDs = <<>> THEN UndefinedBehaviour
            ELSE {[kind |-> "paths",
                   value |-> getAllPointToPoint(vertex, edges, waypointIDs,
                                                avoidPointIDs)]}
    /\ UNCHANGED <<netlist, typetable, dispatched, dtypeMappings, vertex, edges, vars, topName>>

GetAllFanOut ==
  \E startName \in QueryNames :
    /\ pc = "ready"
    /\ pc' = "answered"
    /\ query' = [op |-> "all_fan_out", waypoints |-> <<startName>>, avoid |-> <<>>]
    /\ LET v == getStartVertex(vertex, startName, isMatchAnyVertex)
       IN result' =
            IF v \in {NullVertex, -1} THEN Exception
            ELSE [kind |-> "paths", value |-> getAllFanOut(vertex, edges, v)]
    /\ UNCHANGED <<netlist, typetable, dispatched, dtypeMappings, vertex, edges, vars, topName>>

GetAllFanIn ==
  \E endName \in QueryNames :
    /\ pc = "ready"
    /\ pc' = "answered"
    /\ query' = [op |-> "all_fan_in", waypoints |-> <<endName>>, avoid |-> <<>>]
    /\ LET v == getEndVertex(vertex, endName, isMatchAnyVertex)
       IN result' =
            IF v \in {NullVertex, -1} THEN Exception
            ELSE [kind |-> "paths", value |-> getAllFanIn(vertex, edges, v)]
    /\ UNCHANGED <<netlist, typetable, dispatched, dtypeMappings, vertex, edges, vars, topName>>

\* Netlist::getRegVertex and getRegAliasVertex with matchAny false, under
\* the default options.
getRegVertex(vs, name) == getTypedVertex(vs, name, "REG", FALSE)
getRegAliasVertex(vs, name) == getTypedVertex(vs, name, "REG_ALIAS", FALSE)

\* An existence query: its answer is whether the lookup, which gave v,
\* found a vertex.
existsQuery(op, name, v) ==
  /\ pc = "ready"
  /\ pc' = "answered"
  /\ query' = [op |-> op, waypoints |-> <<name>>, avoid |-> <<>>]
  /\ result' = IF v = -1 THEN Exception
               ELSE [kind |-> "bool", value |-> v # NullVertex]
  /\ UNCHANGED <<netlist, typetable, dispatched, dtypeMappings, vertex, edges, vars, topName>>

StartpointExists ==
  \E name \in QueryNames :
    existsQuery("startpoint_exists", name, getStartVertex(vertex, name, FALSE))

EndpointExists ==
  \E name \in QueryNames :
    existsQuery("endpoint_exists", name, getEndVertex(vertex, name, FALSE))

RegExists ==
  \E name \in QueryNames :
    existsQuery("reg_exists", name,
                IF getRegVertex(vertex, name) # NullVertex
                  THEN getRegVertex(vertex, name)
                  ELSE getRegAliasVertex(vertex, name))

\* Patterns handed to the resolver: names in dot, slash and underscore
\* form and wildcard patterns.
NameSlashA == <<"t", "/", "a">>
NameUnderA == <<"t", "_", "a">>
PatternNames ==
  {NameI, NameO, NameA, NameSlashA, NameUnderA, <<"t", "*">>, <<"*">>}

\* Netlist::getStartVertex, getEndVertex or getMidVertex called with a
\* pattern while the options stand at opt.
getVertexOfKind(op, graphType) ==
  \E opt \in OptionSets, name \in PatternNames, matchAny \in BOOLEAN :
    /\ pc = "ready"
    /\ pc' = "answered"
    /\ query' = [op |-> op, waypoints |-> <<name>>, avoid |-> <<>>,
                 options |-> opt, matchAny |-> matchAny]
    /\ result' = getTypedVertexUnder(opt, vertex, name, graphType, matchAny)
    /\ UNCHANGED <<netlist, typetable, dispatched, dtypeMappings, vertex, edges, vars, topName>>

GetStartVertex == getVertexOfKind("get_start_vertex", "START_POINT")
GetEndVertex == getVertexOfKind("get_end_vertex", "END_POINT")
GetMidVertex == getVertexOfKind("get_mid_vertex", "MID_POINT")

\* The caller takes the result; the netlist is ready for the next query.
Return ==
  /\ pc = "answered"
  /\ pc' = "ready"
  /\ query' = NoQuery
  /\ result' = NoResult
  /\ UNCHANGED <<netlist, typetable, dispatched, dtypeMappings, vertex, edges, vars, topName>>

Next ==
  \/ VisitVar
  \/ VisitScope
  \/ VisitStatement
  \/ EndLoad
  \/ SplitRegVertices
  \/ PathExists
  \/ GetAnyPath
  \/ GetAllPaths
  \/ GetAllFanOut
  \/ GetAllFanIn
  \/ Return

Spec == Init /\ [][Next]_vars_

\* Construction alone, over the wider document.
NextLoad ==
  \/ VisitAnyVar
  \/ VisitScope
  \/ VisitAnyStatement
  \/ EndLoad
  \/ SplitRegVertices

SpecLoad == Init /\ [][NextLoad]_vars_

\* Construction and the name resolver under every option set.
NextResolve ==
  \/ VisitVar
  \/ VisitScope
  \/ VisitStatement
  \/ EndLoad
  \/ SplitRegVertices
  \/ GetStartVertex
  \/ GetEndVertex
  \/ GetMidVertex
  \/ Return

SpecResolve == Init /\ [][NextResolve]_vars_

\* The load of a module that holds variables only, under every mix of names.
NextPrefix ==
  \/ VisitPrefixVar
  \/ EndLoad
  \/ SplitRegVertices

SpecPrefix == Init /\ [][NextPrefix]_vars_

\* The walk of the module over general nodes, outside and inside the scope.
NextWalk ==
  \/ VisitVar
  \/ VisitScope
  \/ DispatchInModule
  \/ DispatchInScope

SpecWalk == Init /\ [][NextWalk]_vars_

\* readXML from the typetable on, for a module that holds variables only.
NextTypes ==
  \/ VisitTypeTableFirst
  \/ VisitTypeTableSecond
  \/ VisitTypedVar
  \/ EndLoad
  \/ SplitRegVertices

SpecTypes == InitTypes /\ [][NextTypes]_vars_

\* readXML from the children of <netlist> on, the variables of the module,
\* and the queries on the graph that results.
NextNetlist ==
  \/ ReadXML
  \/ VisitVar
  \/ VisitScope
  \/ EndLoad
  \/ SplitRegVertices
  \/ PathExists
  \/ GetAnyPath
  \/ GetAllPaths
  \/ StartpointExists
  \/ EndpointExists
  \/ RegExists
  \/ Return

SpecNetlist == InitNetlist /\ [][NextNetlist]_vars_

\* ------------------------------------------------------------------------
\* Reference notions the claims are stated with, defined on the edge set
\* without the search.
\* ------------------------------------------------------------------------
Vertices == 1..Len(vertex)
EdgeSet == {edges[k] : k \in DOMAIN edges}
SeqToSet(seq) == {seq[k] : k \in DOMAIN seq}

\* The query op has returned a value to its caller.
Answered(op) ==
  pc = "answered" /\ query.op = op /\ result.kind \in {"bool", "path", "paths"}
WaypointIDs == readWaypoints(vertex, query.waypoints)
AvoidSet == SeqToSet(readAvoidPoints(vertex, query.avoid))

RECURSIVE ReachClosure(_, _)
\* The vertices reachable from R by edges whose target is outside A.
ReachClosure(R, A) ==
  LET R1 == R \cup {w \in Vertices \ A : \E v \in R : <<v, w>> \in EdgeSet}
  IN IF R1 = R THEN R ELSE ReachClosure(R1, A)

\* A directed path from s to e that uses no vertex of A.
HasAvoidFreePath(s, e, A) == s \notin A /\ e \in ReachClosure({s}, A)

IsWalk(p) == \A k \in 1..(Len(p) - 1) : <<p[k], p[k + 1]>> \in EdgeSet
IsSimple(p) == \A j, k \in DOMAIN p : j # k => p[j] # p[k]

RECURSIVE SimplePathsFrom(_, _, _)
\* The simple paths that extend a partial path in P (none through A) to e.
SimplePathsFrom(P, e, A) ==
  IF P = {} THEN {}
  ELSE LET done == {p \in P : p[Len(p)] = e}
           ext == {Append(p, w) : p \in P \ done,
                                  w \in Vertices \ A}
           next == {q \in ext : /\ <<q[Len(q) - 1], q[Len(q)]>> \in EdgeSet
                                /\ \A k \in 1..(Len(q) - 1) : q[k] # q[Len(q)]}
       IN done \cup SimplePathsFrom(next, e, A)

\* The simple directed paths from s to e in the graph without the vertices
\* of A.
SimplePaths(s, e, A) ==
  IF s \in A THEN {} ELSE SimplePathsFrom({<<s>>}, e, A)

\* ------------------------------------------------------------------------
\* Claims.
\* ------------------------------------------------------------------------
\* C1: for the two waypoints s and e and the avoid set A, path_exists returns
\* true if and only if the graph has a directed path from s to e that uses
\* no vertex of A.
C1_PathExistsIffAvoidFreePath ==
  (Answered("path_exists") /\ Len(query.waypoints) = 2) =>
    (result.value = HasAvoidFreePath(WaypointIDs[1], WaypointIDs[2], AvoidSet))

\* C2: a non-empty any_path result starts at w0, ends at wn, contains the
\* waypoints in their order, every consecutive pair is an edge of the graph
\* in that direction, and no join waypoint is repeated at its join.
C2_AnyPathIsJoinedWalk ==
  (Answered("any_path") /\ result.value # <<>>) =>
    LET p == result.value
        w == WaypointIDs
    IN /\ p[1] = w[1]
       /\ p[Len(p)] = w[Len(w)]
       /\ IsWalk(p)
       /\ \A k \in 1..(Len(p) - 1) : p[k] # p[k + 1]
       /\ \E pos \in [DOMAIN w -> DOMAIN p] :
            /\ pos[1] = 1
            /\ pos[Len(w)] = Len(p)
            /\ \A j \in DOMAIN w : p[pos[j]] = w[j]
            /\ \A j \in 1..(Len(w) - 1) : pos[j] <= pos[j + 1]

C2_Witness ==
  /\ Answered("any_path")
  /\ Len(query.waypoints) = 3
  /\ Len(result.value) >= 5

\* C3: for exactly two waypoints s and e and the avoid set A, all_paths
\* returns exactly the simple directed paths from s to e in the graph
\* without the vertices of A, each in start-to-end order and none twice.
C3_AllPathsAreTheSimplePaths ==
  (Answered("all_paths") /\ Len(query.waypoints) = 2) =>
    LET r == result.value
    IN /\ SeqToSet(r) = SimplePaths(WaypointIDs[1], WaypointIDs[2], AvoidSet)
       /\ \A j, k \in DOMAIN r : j # k => r[j] # r[k]

\* C4: all_fan_out(start) returns exactly one path for each end-point vertex
\* reachable from start and none for an unreachable one; each path begins at
\* start, ends at its end point and follows edges of the graph.
C4_FanOutOnePathPerEndPoint ==
  Answered("all_fan_out") =>
    LET r == result.value
        start == getStartVertex(vertex, query.waypoints[1], isMatchAnyVertex)
        ends == {v \in ReachClosure({start}, {}) : isFinishPoint(vertex[v])}
    IN /\ {r[k][Len(r[k])] : k \in DOMAIN r} = ends
       /\ Len(r) = Cardinality(ends)
       /\ \A k \in DOMAIN r : r[k][1] = start /\ IsWalk(r[k])

C4_Witness ==
  /\ Answered("all_fan_out")
  /\ Len(result.value) >= 2
  /\ \E v \in Vertices :
       isFinishPoint(vertex[v]) /\ \A k \in DOMAIN result.value :
                                      result.value[k][Len(result.value[k])] # v

\* C5: all_fan_in(finish) returns exactly one path for each start-point
\* vertex from which finish is reachable; each path is in start-to-finish
\* order: first the start point, last finish, every consecutive pair a
\* forward edge of the graph.
C5_FanInOnePathPerStartPoint ==
  Answered("all_fan_in") =>
    LET r == result.value
        finish == getEndVertex(vertex, query.waypoints[1], isMatchAnyVertex)
        starts == {v \in Vertices : /\ isStartPoint(vertex[v])
                                    /\ finish \in ReachClosure({v}, {})}
    IN /\ {r[k][1] : k \in DOMAIN r} = starts
       /\ Len(r) = Cardinality(starts)
       /\ \A k \in DOMAIN r : r[k][Len(r[k])] = finish /\ IsWalk(r[k])

C5_Witness ==
  /\ Answered("all_fan_in")
  /\ Len(result.value) >= 2
  /\ \E k \in DOMAIN result.value : Len(result.value[k]) >= 3

\* C9: no vertex on a path returned by any_path or all_paths is a member of
\* the avoid set, and path_exists is true only if an avoid-free path exists.
C9_ResultsAvoidTheAvoidSet ==
  /\ Answered("any_path") => SeqToSet(result.value) \cap AvoidSet = {}
  /\ Answered("all_paths") =>
       \A k \in DOMAIN result.value : SeqToSet(result.value[k]) \cap AvoidSet = {}
  /\ (Answered("path_exists") /\ result.value) =>
       HasAvoidFreePath(WaypointIDs[1], WaypointIDs[Len(WaypointIDs)], AvoidSet)

Count(seq, x) == Cardinality({k \in DOMAIN seq : seq[k] = x})
\* The two sequences hold the same elements the same number of times.
SameBag(s1, s2) ==
  \A x \in SeqToSet(s1) \cup SeqToSet(s2) : Count(s1, x) = Count(s2, x)

Constructed == pc \in {"ready", "answered"}

\* C6: after construction every variable vertex of role src_reg has
\* in-degree 0 and every variable vertex of role dst_reg has out-degree 0.
C6_RegDegrees ==
  Constructed =>
    \A v \in Vertices :
      /\ isSrcReg(vertex[v]) => inDegree(edges, v) = 0
      /\ isDstReg(vertex[v]) => outDegree(edges, v) = 0

\* A register stitched to a port whose twin has parallel out-edges.
C6_Witness ==
  /\ Constructed
  /\ \E v, t, l \in Vertices :
       /\ isDstReg(vertex[v]) /\ isSrcReg(vertex[t])
       /\ vertex[t].name = vertex[v].name
       /\ Count(edges, <<t, l>>) >= 2
       /\ \E q \in Vertices : ~isLogic(vertex[q]) /\ <<q, v>> \in EdgeSet

SplitStep == pc = "loaded" /\ pc' = "ready"
RegsBefore == {v \in Vertices : isReg(vertex[v])}
TwinMaps ==
  {tw \in [RegsBefore -> (Len(vertex) + 1)..Len(vertex')] :
     \A u, v \in RegsBefore : u # v => tw[u] # tw[v]}
TwinCopies(tw) ==
  \A v \in RegsBefore :
    /\ vertex'[tw[v]] = [vertex[v] EXCEPT !.ast = "SRC_REG"]
    /\ SameBag(adjacentVerticesOf(edges', tw[v]), adjacentVerticesOf(edges, v))
InSources(es, v) ==
  LET ins == SelectEdges(es, 2, v) IN [k \in DOMAIN ins |-> ins[k][1]]

\* C7: the register split creates, for every register variable and for no
\* other vertex, exactly one twin that copies the original with role
\* src_reg; the twin's out-edge targets are, as a multiset, the original's
\* before the split; the original keeps exactly its previous in-edges and
\* the role dst_reg.
C7_SplitCreatesTwins_Original ==
  [][SplitStep =>
       /\ Len(vertex') = Len(vertex) + Cardinality(RegsBefore)
       /\ \A v \in Vertices : vertex'[v] = vertex[v]
       /\ \E tw \in TwinMaps : TwinCopies(tw)
       /\ \A v \in RegsBefore :
            /\ isDstReg(vertex'[v])
            /\ SameBag(InSources(edges', v), InSources(edges, v))]_vars_

\* C7 as amended: an in-edge of the original that came from another
\* register comes from that register's twin after the split.
C7_SplitCreatesTwins ==
  [][SplitStep =>
       /\ Len(vertex') = Len(vertex) + Cardinality(RegsBefore)
       /\ \A v \in Vertices : vertex'[v] = vertex[v]
       /\ \E tw \in TwinMaps :
            /\ TwinCopies(tw)
            /\ \A v \in RegsBefore :
                 /\ isDstReg(vertex'[v])
                 /\ LET before == InSources(edges, v)
                    IN SameBag(InSources(edges', v),
                               [k \in DOMAIN before |->
                                  IF before[k] \in RegsBefore
                                    THEN tw[before[k]]
                                    ELSE before[k]])]_vars_

\* The split has made the twin of a register that had parallel out-edges and
\* an in-edge from another register.
C7_Witness ==
  /\ pc = "ready"
  /\ \E v, t, u, l \in Vertices :
       /\ isDstReg(vertex[v]) /\ isSrcReg(vertex[t]) /\ isSrcReg(vertex[u])
       /\ vertex[t].name = vertex[v].name
       /\ vertex[u].name # vertex[v].name
       /\ <<u, v>> \in EdgeSet
       /\ isLogic(vertex[l]) /\ Count(edges, <<t, l>>) >= 2

\* A path query with at least one waypoint has ended.
PathQuery ==
  /\ pc = "answered"
  /\ query.op \in {"path_exists", "any_path", "all_paths"}
  /\ query.waypoints # <<>>
StartCandidates(name) ==
  {v \in Vertices : isStartPoint(vertex[v]) /\ vertex[v].name = name}
EndCandidates(name) ==
  {v \in Vertices : isFinishPoint(vertex[v]) /\ vertex[v].name = name}
MidCandidates(name) ==
  {v \in Vertices : isMidPoint(vertex[v]) /\ vertex[v].name = name}
\* The paths a path query returned.
ReturnedPaths ==
  IF result.kind = "path" /\ result.value # <<>> THEN {result.value}
  ELSE IF result.kind = "paths" THEN SeqToSet(result.value)
  ELSE {}
\* The query fails exactly when a name has no vertex of its class, and a
\* returned path begins at a start point named names[1] and passes a mid
\* point named by each interior name.
FirstAndInteriorResolved(names) ==
  /\ \A p \in ReturnedPaths :
       /\ p[1] \in StartCandidates(names[1])
       /\ \A k \in 2..(Len(names) - 1) :
            \E j \in DOMAIN p : p[j] \in MidCandidates(names[k])
NoCandidate(names, lastIsEnd) ==
  \/ StartCandidates(names[1]) = {}
  \/ lastIsEnd /\ EndCandidates(names[Len(names)]) = {}
  \/ \E k \in 2..(Len(names) - 1) : MidCandidates(names[k]) = {}
  \/ \E k \in DOMAIN query.avoid : MidCandidates(query.avoid[k]) = {}

\* C8 as stated: in every path query the first waypoint name is resolved
\* only among start-point vertices, the last only among end-point vertices
\* and every interior name only among mid-point vertices.
C8_WaypointClasses_Original ==
  PathQuery =>
    LET names == query.waypoints
    IN /\ (result.kind = "exception") = NoCandidate(names, TRUE)
       /\ FirstAndInteriorResolved(names)
       /\ \A p \in ReturnedPaths : p[Len(p)] \in EndCandidates(names[Len(names)])

\* C8 as amended: the last name is resolved among end-point vertices when
\* the query has at least two waypoints; a single waypoint is resolved among
\* start-point vertices only.  A register name yields its src_reg twin as
\* first waypoint and its dst_reg vertex as last.
C8_WaypointClasses ==
  PathQuery =>
    LET names == query.waypoints
    IN /\ (result.kind = "exception") = NoCandidate(names, Len(names) >= 2)
       /\ FirstAndInteriorResolved(names)
       /\ Len(names) >= 2 =>
            \A p \in ReturnedPaths : p[Len(p)] \in EndCandidates(names[Len(names)])

\* The same register name as first and last waypoint: the path runs from
\* the twin to the original.
C8_Witness ==
  /\ Answered("any_path")
  /\ query.waypoints = <<NameA, NameA>>
  /\ result.value # <<>>
  /\ isSrcReg(vertex[result.value[1]])
  /\ isDstReg(vertex[result.value[Len(result.value)]])

RECURSIVE CartesianJoin(_)
\* One path per choice of a path from each stage list, each the chosen paths
\* in stage order with the vertex shared by two stages written once.
CartesianJoin(stageLists) ==
  IF Len(stageLists) = 1 THEN stageLists[1]
  ELSE LET first == stageLists[1]
           rest == CartesianJoin(Tail(stageLists))
       IN [k \in 1..(Len(first) * Len(rest)) |->
             first[((k - 1) \div Len(rest)) + 1]
               \o Tail(rest[((k - 1) % Len(rest)) + 1])]
\* The paths determineAllPaths finds between waypoints i and i + 1, each
\* turned into start-to-end order.
StageList(i) ==
  LET paths == stagePathsOf(vertex, edges, WaypointIDs,
                            readAvoidPoints(vertex, query.avoid), i)
  IN [k \in DOMAIN paths |-> Reverse(paths[k])]
RECURSIVE Product(_)
Product(counts) ==
  IF counts = <<>> THEN 1 ELSE Head(counts) * Product(Tail(counts))

QueryResolves ==
  /\ readWaypoints(vertex, query.waypoints) # Thrown
  /\ readAvoidPoints(vertex, query.avoid) # Thrown
\* The answer that stands for "no path" in each path query.
NoPathResult ==
  CASE query.op = "path_exists" -> [kind |-> "bool", value |-> FALSE]
    [] query.op = "any_path" -> [kind |-> "path", value |-> <<>>]
    [] query.op = "all_paths" -> [kind |-> "paths", value |-> <<>>]
Unreachable == WaypointIDs[2] \notin ReachClosure({WaypointIDs[1]}, {})

\* C11: when the two waypoints of a path query both resolve and the end is
\* not reachable from the start, any_path returns the empty sequence,
\* path_exists returns false and all_paths returns the empty list; none of
\* them raises.
C11_NoPathIsEmptyResult ==
  (PathQuery /\ Len(query.waypoints) = 2 /\ QueryResolves /\ Unreachable) =>
    result = NoPathResult

\* all_paths between two resolved waypoints in different parts of a graph
\* that has edges.
C11_Witness ==
  /\ PathQuery /\ query.op = "all_paths"
  /\ Len(query.waypoints) = 2
  /\ QueryResolves
  /\ Unreachable
  /\ \E k \in DOMAIN edges : edges[k][1] = WaypointIDs[1]
  /\ \E k \in DOMAIN edges : edges[k][2] = WaypointIDs[2]
  /\ result.value = <<>>

\* The name is that of an output port.
IsOutputPortName(name) ==
  \E v \in Vertices : vertex[v].name = name /\ vertex[v].dir = "output"
IsRegisterName(name) ==
  \E v \in Vertices : vertex[v].name = name /\ isSrcReg(vertex[v])

\* C12 as stated: if the first waypoint name matches no start-point vertex,
\* the last no end-point vertex, a through name no mid-point vertex or an
\* avoid name no vertex, the path query raises; an output port given as
\* first waypoint raises.
C12_UnknownNameRaises_Original ==
  PathQuery =>
    /\ NoCandidate(query.waypoints, TRUE) => result.kind = "exception"
    /\ IsOutputPortName(query.waypoints[1]) => result.kind = "exception"

\* C12 as amended: the last name is required to match an end point only
\* when the query has two or more waypoints, and an output port given as
\* first waypoint raises when it is not a register.
C12_UnknownNameRaises ==
  PathQuery =>
    /\ NoCandidate(query.waypoints, Len(query.waypoints) >= 2) =>
         result.kind = "exception"
    /\ (IsOutputPortName(query.waypoints[1])
          /\ ~IsRegisterName(query.waypoints[1])) => result.kind = "exception"

\* An output port as first waypoint of a query whose other names resolve.
C12_Witness ==
  /\ PathQuery
  /\ Len(query.waypoints) = 2
  /\ IsOutputPortName(query.waypoints[1])
  /\ EndCandidates(query.waypoints[2]) # {}
  /\ readAvoidPoints(vertex, query.avoid) # Thrown
  /\ Len(edges) > 0
  /\ result.kind = "exception"

Resolving ==
  pc = "answered"
    /\ query.op \in {"get_start_vertex", "get_end_vertex", "get_mid_vertex"}
\* The name matches the pattern in the query's match mode.
Matches(name, pattern) ==
  LET mode == query.options.matchMode
      marks == query.options.ignoreHierarchyMarkers
  IN CASE mode = "exact" -> name = pattern
       [] mode = "wildcard" ->
            wildcardMatch(name, IF marks
                                  THEN replaceChars(pattern, {"/", ".", "_"}, "?")
                                  ELSE pattern)
       [] mode = "regex" ->
            LET re == IF marks THEN replaceChars(pattern, {"/", "_"}, ".")
                      ELSE pattern
            IN regexValid(re) /\ regexSearch(name, re)
OfRequestedKind(v) ==
  CASE query.op = "get_start_vertex" -> isStartPoint(vertex[v])
    [] query.op = "get_end_vertex" -> isFinishPoint(vertex[v])
    [] query.op = "get_mid_vertex" -> isMidPoint(vertex[v])
\* The vertices of the requested kind that match the query's pattern.
Candidates ==
  {v \in Vertices : OfRequestedKind(v) /\ Matches(vertex[v].name, query.waypoints[1])}

\* C13: in every match mode, when match-any is off and more than one vertex
\* of the requested kind matches the name, resolving raises a
\* multiple-matches exception that lists every candidate; when match-any is
\* on the first candidate in vertex-id order is returned and nothing is
\* raised.
C13_MultipleMatchesRaise ==
  (Resolving /\ Cardinality(Candidates) > 1) =>
    IF query.matchAny
      THEN /\ result.kind = "vertex"
           /\ result.value \in Candidates
           /\ \A v \in Candidates : result.value <= v
      ELSE /\ result.kind = "exception"
           /\ result.what = "multiple"
           /\ SeqToSet(result.candidates) = Candidates

\* C14: a path query given an empty waypoint list reports an error to the
\* caller and performs no graph traversal.
C14_EmptyWaypointsRejected ==
  (/\ pc = "answered"
   /\ query.op \in {"path_exists", "any_path", "all_paths"}
   /\ query.waypoints = <<>>) => result.kind = "exception"

NumberOf(children, name) ==
  Cardinality({k \in DOMAIN children : children[k] = name})
\* The netlist's top-level children are one module and no interface.
IsFlat(children) ==
  NumberOf(children, "module") = 1 /\ NumberOf(children, "iface") = 0

\* C15: after load the graph has no vertices whenever the top-level
\* children include more than one module or any iface, wherever the iface
\* stands; with exactly one module and no iface the module's contents are
\* loaded, also when packages are present.
C15_NonFlatNetlistIsEmpty ==
  [][/\ (pc = "netlist" /\ IsFlat(netlist')) => pc' = "module"
     /\ (NumberOf(netlist', "module") > 1 \/ NumberOf(netlist', "iface") > 0)
          => vertex' = <<>>]_vars_

\* The queries C16 names.
FalseOrEmpty ==
  CASE query.op \in {"path_exists", "startpoint_exists", "endpoint_exists",
                     "reg_exists"} -> [kind |-> "bool", value |-> FALSE]
    [] query.op = "any_path" -> [kind |-> "path", value |-> <<>>]
    [] query.op = "all_paths" -> [kind |-> "paths", value |-> <<>>]

\* C16: on the empty graph produced for a non-flat netlist every path query
\* and existence query returns a false or empty result and none raises.
C16_QueriesOnEmptyGraph ==
  (/\ pc = "answered"
   /\ ~IsFlat(netlist)
   /\ vertex = <<>>
   /\ query.waypoints # <<>>) => result = FalseOrEmpty

\* The value the answered query has on the graph with edge list es.
ValueOn(es) ==
  LET first == getStartVertex(vertex, query.waypoints[1], isMatchAnyVertex)
      last == getEndVertex(vertex, query.waypoints[1], isMatchAnyVertex)
      avoidPointIDs == readAvoidPoints(vertex, query.avoid)
  IN CASE query.op = "path_exists" ->
            getAnyPointToPoint(vertex, es, WaypointIDs, avoidPointIDs) # <<>>
       [] query.op = "any_path" ->
            getAnyPointToPoint(vertex, es, WaypointIDs, avoidPointIDs)
       [] query.op = "all_paths" ->
            getAllPointToPoint(vertex, es, WaypointIDs, avoidPointIDs)
       [] query.op = "all_fan_out" -> getAllFanOut(vertex, es, first)
       [] query.op = "all_fan_in" -> getAllFanIn(vertex, es, last)

\* The edge list after one more edge parallel to the k-th.
WithDuplicate(k) == addEdge(edges, edges[k][1], edges[k][2])

\* C17: adding a parallel duplicate of an existing edge changes the result
\* of no path query (path_exists, any_path, all_paths, all_fan_out,
\* all_fan_in), while the graph keeps both edges.
C17_ParallelEdgeChangesNoResult ==
  (/\ pc = "answered"
   /\ query.op \in {"path_exists", "any_path", "all_paths", "all_fan_out",
                    "all_fan_in"}
   /\ result.kind \in {"bool", "path", "paths"})
    => /\ result.value = ValueOn(edges)
       /\ \A k \in DOMAIN edges :
            /\ ValueOn(WithDuplicate(k)) = result.value
            /\ Count(WithDuplicate(k), edges[k]) = Count(edges, edges[k]) + 1

\* The name t.a written with '.', with '/' and with '_'.
SeparatorForms == {NameA, NameSlashA, NameUnderA}
\* The vertices of the requested kind that are named t.a.
NamedA == {v \in Vertices : OfRequestedKind(v) /\ vertex[v].name = NameA}
\* A lookup of one of the forms, hierarchy markers ignored, while t.a names
\* one vertex of the requested kind.
FormLookup ==
  /\ Resolving
  /\ query.options.ignoreHierarchyMarkers
  /\ query.waypoints[1] \in SeparatorForms
  /\ Cardinality(NamedA) = 1

\* C18 as stated: in each matching mode, the exact one included, the lookup
\* of any of the three forms returns the vertex.
C18_SeparatorFormsAgree_Original ==
  FormLookup => result = Found(CHOOSE v \in NamedA : TRUE)

\* C18: with ignore_hierarchy_markers set, in regex mode and in wildcard
\* mode, for a variable name that resolves to a single vertex, the lookup
\* with the separators written as '/', as '.' or as '_' returns that vertex.
C18_SeparatorFormsAgree ==
  (FormLookup /\ query.options.matchMode # "exact")
    => result = Found(CHOOSE v \in NamedA : TRUE)

C18_Witness ==
  /\ FormLookup
  /\ query.options.matchMode = "regex"
  /\ query.waypoints[1] = NameUnderA
  /\ result.kind = "vertex"
  /\ result.value \in NamedA

\* The edges whose source and target are both variable vertices.
VariableEdges ==
  {e \in EdgeSet : ~isLogic(vertex[e[1]]) /\ ~isLogic(vertex[e[2]])}

\* C19 as stated: no edge joins two variable vertices.
C19_NoEdgeBetweenVariables_Original == Constructed => VariableEdges = {}

\* C19: after load and canonicalization every edge of the graph has a logic
\* vertex as its source or as its target, except the edges newVar adds in
\* both directions between a port and its internal instance: an edge
\* between two variable vertices joins two variables that carry the same
\* port direction.
C19_NoEdgeBetweenVariables ==
  Constructed =>
    \A e \in VariableEdges :
      /\ isPort(vertex[e[1]])
      /\ vertex[e[1]].dir = vertex[e[2]].dir

C19_Witness ==
  /\ Constructed
  /\ \E e \in VariableEdges : <<e[2], e[1]>> \in VariableEdges
  /\ \E e \in EdgeSet : isLogic(vertex[e[1]]) /\ ~isLogic(vertex[e[2]])

\* The variable vertex a <varref> of this name refers to.
VarOf(name) == lookupVarVertex(vars, topName, name)
ReadEdges(names, logic) == [k \in 1..Len(names) |-> <<VarOf(names[k]), logic>>]
WriteEdges(names, logic) == [k \in 1..Len(names) |-> <<logic, VarOf(names[k])>>]
AssignEdges(node, logic) ==
  ReadEdges(node.rhs, logic) \o WriteEdges(node.lhs, logic)
\* The edges a statement node is to add when its logic vertex is L: an
\* assignment its reads and writes; an <always> its sensitivity reads, the
\* edge to the nested assignment and that assignment's reads and writes.
StatementEdges(node, L) ==
  IF isAssignType(node.ast) THEN AssignEdges(node, L)
  ELSE ReadEdges(node.rhs, L) \o << <<L, L + 1>> >>
         \o AssignEdges(node.body[1], L + 1)
\* The variables written under a delayed assignment of the node.
AssignDlyWrites(node) ==
  IF node.ast = "ASSIGN_DLY"
    THEN {VarOf(node.lhs[k]) : k \in 1..Len(node.lhs)}
    ELSE {}
DelayedWrites(node) ==
  IF isAssignType(node.ast) THEN AssignDlyWrites(node)
  ELSE AssignDlyWrites(node.body[1])

\* C20: for an assignment with logic vertex L every varref under the first
\* child adds variable -> L and every varref under the second child adds
\* L -> variable; a written variable is flagged dst_reg exactly when the
\* enclosing assignment is delayed; a varref under a statement that is not
\* an assignment adds variable -> L; is_lvalue is up only under the second
\* child and is down again once the assignment is left.
C20_VarRefEdgesAndRoles ==
  pc = "scope" =>
    \A node \in AnyStmtNodes :
      LET st == newStatement(LoaderState, node, NullVertex)
      IN st.ok =>
           /\ st.edges = edges \o StatementEdges(node, Len(vertex) + 1)
           /\ \A v \in 1..Len(vertex) :
                st.vertex[v] = IF v \in DelayedWrites(node)
                                 THEN [vertex[v] EXCEPT !.ast = "DST_REG"]
                                 ELSE vertex[v]
           /\ ~st.isLValue
           /\ ~st.isDelayedAssign

\* A delayed and a plain assignment have been loaded: the first flagged its
\* target, the second did not.
C20_Witness ==
  /\ pc = "scope"
  /\ \E e \in EdgeSet : /\ vertex[e[1]].ast = "ASSIGN_DLY"
                        /\ vertex[e[2]].ast = "DST_REG"
  /\ \E e \in EdgeSet : /\ vertex[e[1]].ast = "ASSIGN"
                        /\ vertex[e[2]].ast = "VAR"
  /\ \E e \in EdgeSet : /\ vertex[e[2]].ast = "ASSIGN"
                        /\ vertex[e[1]].ast = "VAR"

\* The variable vertices whose names the elaborator did not generate.
NamedVariables ==
  {v \in Vertices : ~isLogic(vertex[v]) /\ ~IsGeneratedName(vertex[v].name)}

\* C21: if a module-level top prefix has been determined, then after load
\* every variable vertex whose name is not elaborator-generated has a name
\* that begins with '<top>.', whatever the order of the declarations and
\* whatever the local names are.
C21_NamesCarryTopPrefix ==
  (Constructed /\ topName # <<>>) =>
    \A v \in NamedVariables : IsPrefix(topName \o <<".">>, vertex[v].name)

VariableVertices == {v \in Vertices : ~isLogic(vertex[v])}

\* C22: after a load that succeeds every variable vertex holds a resolved
\* (non-null) data-type reference of width at least 1, for every dtype_id a
\* var node can carry.
C22_VariablesAreTyped ==
  Constructed =>
    \A v \in VariableVertices :
      /\ vertex[v].dtype # NullDType
      /\ getWidth(dtypeMappings, vertex[v].dtype) >= 1

\* The nodes of the table that refer to other types.
ReferringNodes ==
  {k \in DOMAIN typetable :
     typetable[k].kind \in {"refdtype", "arraydtype", "enumdtype", "structdtype",
                            "uniondtype"}}
\* A referring node names a sub_dtype_id for which no type has been created.
Dangling ==
  \E k \in ReferringNodes :
    \E id \in subDTypeIds(typetable[k]) : id \notin DOMAIN dtypeMappings
\* Every type made from a referring node has its target, or exactly its
\* declared members in their order.
Resolved ==
  \A k \in ReferringNodes :
    LET node == typetable[k]
        dtype == dtypeMappings[node.id]
    IN /\ node.id \in DOMAIN dtypeMappings
       /\ dtype.kind = node.kind
       /\ IF node.kind \in {"structdtype", "uniondtype"}
            THEN dtype.members = node.members
            ELSE dtype.sub = node.sub
       /\ \A id \in subDTypeIds(node) :
            id \in DOMAIN dtypeMappings /\ dtypeMappings[id].kind # "null"

\* C23: if a refdtype, an array dtype, an enumdtype or a struct/union member
\* names a sub_dtype_id for which no type was created by the end of the
\* first typetable pass, the load fails; after a successful load no Ref,
\* Array or Enum type has an unresolved target and each struct or union
\* holds exactly its declared members once, in order.
C23_TypeReferencesResolved ==
  [][/\ (pc = "typetable2" /\ Dangling) => pc' = "failed"
     /\ pc' \in {"module", "loaded", "ready"} => Resolved']_vars_

\* A table with a forward reference and a two-member struct has been loaded.
C23_Witness ==
  /\ Constructed
  /\ \E j, k \in DOMAIN typetable :
       /\ j < k
       /\ typetable[j].kind = "structdtype"
       /\ typetable[j].members = <<typetable[k].id, typetable[k].id>>
       /\ dtypeMappings[typetable[j].id].members = typetable[j].members
  /\ vertex # <<>>

\* A step of the general walk: dispatchVisitor was applied to a child of the
\* module or of the scope.
DispatchStep ==
  \/ dispatched' # dispatched
  \/ pc' \in {"failed", "died"}
  \/ vars' = vars /\ pc' = pc /\ vertex' # vertex

\* C24: a varref that is not nested inside any statement (no current logic
\* vertex) makes the load fail with an exception, whether or not the varref
\* lies inside a scope, and no edge is added for it.
C24_VarRefOutsideStatementFails ==
  [][(DispatchStep /\ dispatched'.node.name = "varref")
       => (pc' = "failed" /\ edges' = edges)]_vars_

\* The same for a varref that lies inside the scope only.
C24_VarRefInScopeFails ==
  [][(DispatchStep /\ dispatched'.node.name = "varref" /\ dispatched'.inScope)
       => (pc' = "failed" /\ edges' = edges)]_vars_

\* An assignment node whose number of children is not 2 was dispatched.
MalformedAssignStep ==
  /\ DispatchStep
  /\ dispatched'.node.name \in AssignNames
  /\ Len(dispatched'.node.kids) # 2

\* C25: an assignment node (assign, assigndly, assignw, contassign,
\* assignalias) whose number of children is not 2 makes the load fail with
\* an error reported to the caller; the loader never goes on to treat the
\* first and last child of such a node as right-hand and left-hand side.
C25_MalformedAssignFails ==
  [][MalformedAssignStep => (pc' = "failed" /\ edges' = edges)]_vars_

\* What the code does with such a node inside the scope: a build that
\* keeps assert ends the process; a build without it ends the process on a
\* node without children and otherwise fails only when the varref handling
\* does.
C25_MalformedAssignInScope ==
  [][(MalformedAssignStep /\ dispatched'.inScope)
       => IF dispatched'.asserts \/ dispatched'.node.kids = <<>>
            THEN pc' = "died"
            ELSE pc' \in {"scope", "failed"}]_vars_

\* A build without assert went on with a three-child assignment and added
\* the edges of its first and last child.
C25_WentOn ==
  /\ pc = "scope"
  /\ ~dispatched.asserts
  /\ dispatched.node.name \in AssignNames
  /\ Len(dispatched.node.kids) = 3
  /\ edges # <<>>

\* The statement kind that matches a node name.
MatchingKind(name) ==
  CASE name = "assign" -> "ASSIGN"
    [] name = "assignalias" -> "ASSIGN_ALIAS"
    [] name = "assigndly" -> "ASSIGN_DLY"
    [] name = "assignw" -> "ASSIGN_W"
    [] name = "always" -> "ALWAYS"
    [] name = "alwayspublic" -> "ALWAYS_PUBLIC"
    [] name = "initial" -> "INITIAL"
    [] name = "instance" -> "INSTANCE"
    [] name = "sengate" -> "SEN_GATE"
    [] name = "senitem" -> "SEN_ITEM"
    [] name = "cfunc" -> "C_FUNC"
    [] OTHER -> "none"

RECURSIVE StatementTree(_, _, _, _)
\* The statements of a list of sibling nodes in document order, numbered
\* from `next` on: their names, and the pairs <<enclosing statement,
\* statement>>.  `parent` is the number of the enclosing statement or
\* NullVertex.  counted tells which statement nodes are to have a vertex,
\* given the node name and whether a statement encloses it.
StatementTree(nodes, next, parent, counted) ==
  IF nodes = <<>> THEN [next |-> next, names |-> <<>>, pairs |-> {}]
  ELSE
    LET node == Head(nodes)
        isStatement == <<node.name, parent # NullVertex>> \in counted
        below == StatementTree(node.kids, IF isStatement THEN next + 1 ELSE next,
                               IF isStatement THEN next ELSE parent, counted)
        after == StatementTree(Tail(nodes), below.next, parent, counted)
    IN [next |-> after.next,
        names |-> (IF isStatement THEN <<node.name>> ELSE <<>>)
                    \o below.names \o after.names,
        pairs |-> (IF isStatement /\ parent # NullVertex
                     THEN {<<parent, next>>} ELSE {})
                    \cup below.pairs \cup after.pairs]

\* Every statement node named by the claim, enclosed or not.
EveryStatement ==
  (StatementNames \ {"contassign"}) \X BOOLEAN
\* The statement nodes newStatement is reached for.
ReachingNewStatement ==
  (StatementNames \X BOOLEAN) \ {<<"senitem", TRUE>>}

\* A statement node was dispatched inside the scope and its subtree walked.
StatementStep ==
  /\ DispatchStep
  /\ dispatched'.inScope
  /\ pc' = "scope"
  /\ dispatched'.node.name \in StatementNames

LogicEdges(es, from) ==
  {es[k] : k \in {j \in DOMAIN es : es[j][1] > from /\ es[j][2] > from}}

\* The statements of the dispatched subtree have, in document order, the
\* vertices after the old ones, of the matching kind or of the kind of the
\* visitor dispatchVisitor selects; the edges between them are
\* those from enclosing statement to statement; and a varref that follows a
\* nested statement is attached to the enclosing statement again.
StatementsAre(tree, usesMatchingKind) ==
  /\ Len(vertex') = Len(vertex) + Len(tree.names)
  /\ \A k \in 1..Len(tree.names) :
       /\ Len(vertex) + k <= Len(vertex')
       /\ vertex'[Len(vertex) + k].ast =
            IF usesMatchingKind THEN MatchingKind(tree.names[k])
            ELSE dispatchedAstType(tree.names[k])
  /\ LogicEdges(edges', Len(vertex)) = tree.pairs
  /\ LET kids == dispatched'.node.kids
     IN (Len(kids) = 2 /\ ~dispatched'.node.name \in AssignNames
           /\ kids[1].name \in StatementNames /\ kids[2].name = "varref")
          => edges'[Len(edges')] =
               <<lookupVarVertex(vars, topName, kids[2].var), Len(vertex) + 1>>

\* C26: every statement node met inside a scope (assign, assigndly, assignw,
\* assignalias, always, alwayspublic, initial, instance, sengate, senitem,
\* cfunc) creates exactly one logic vertex whose kind is the one matching
\* the node name, and an edge from the enclosing statement's logic vertex to
\* the new one exactly when there is an enclosing statement; after the
\* statement's subtree has been walked the current logic is again the
\* enclosing statement's.
C26_StatementVertices ==
  [][(StatementStep /\ dispatched'.node.name # "contassign")
       => StatementsAre(StatementTree(<<dispatched'.node>>, Len(vertex) + 1,
                                      NullVertex, EveryStatement), TRUE)]_vars_

\* What the code does: the kind is the one of the visitor dispatchVisitor
\* selects, and a senitem enclosed by a statement has no vertex.
C26_StatementVerticesAsDispatched ==
  [][StatementStep
       => StatementsAre(StatementTree(<<dispatched'.node>>, Len(vertex) + 1,
                                      NullVertex, ReachingNewStatement),
                        FALSE)]_vars_

\* An <always> with a nested <assignw> and a following varref was walked.
C26_Walked ==
  /\ pc = "scope"
  /\ dispatched.inScope
  /\ dispatched.node.name = "always"
  /\ Len(dispatched.node.kids) = 2
  /\ \E v \in DOMAIN vertex : vertex[v].ast = "ASSIGN"

\* The order in which the DFS of all_fan_out (forward, from the start
\* vertex) or all_fan_in (reverse graph, from the finish vertex) discovers
\* the vertices.
DiscoverOrder ==
  IF query.op = "all_fan_out"
    THEN depthFirstSearchFrom(
           GraphView(vertex, edges, FALSE, <<>>, FALSE),
           getStartVertex(vertex, query.waypoints[1], isMatchAnyVertex)).order
    ELSE depthFirstSearchFrom(
           GraphView(vertex, edges, TRUE, <<>>, FALSE),
           getEndVertex(vertex, query.waypoints[1], isMatchAnyVertex)).order
PlaceIn(seq, x) == CHOOSE k \in DOMAIN seq : seq[k] = x
\* The terminal vertex of a returned path: the end point for fan-out, the
\* start point for fan-in.
Terminal(path) ==
  IF query.op = "all_fan_out" THEN path[Len(path)] ELSE path[1]
FanAnswered == Answered("all_fan_out") \/ Answered("all_fan_in")

\* C27 as stated: the path lists returned by all_fan_out and all_fan_in are
\* in DFS visit order: path p precedes path q exactly when the terminal
\* vertex of p was discovered by the DFS before that of q.
C27_FanListsInDiscoverOrder_Original ==
  FanAnswered =>
    \A j, k \in DOMAIN result.value :
      j < k <=> PlaceIn(DiscoverOrder, Terminal(result.value[j]))
                  < PlaceIn(DiscoverOrder, Terminal(result.value[k]))

\* C27 as amended: the path lists returned by all_fan_out and all_fan_in
\* are in vertex order: path p precedes path q exactly when the terminal
\* vertex of p was added to the graph before that of q.
C27_FanListsInVertexOrder ==
  FanAnswered =>
    \A j, k \in DOMAIN result.value :
      j < k <=> Terminal(result.value[j]) < Terminal(result.value[k])

\* A fan-out of two paths whose later end point the DFS discovered first.
C27_Witness ==
  /\ Answered("all_fan_out")
  /\ Len(result.value) >= 2
  /\ PlaceIn(DiscoverOrder, Terminal(result.value[2]))
       < PlaceIn(DiscoverOrder, Terminal(result.value[1]))

\* The same for a fan-in.
C27_FanInDiffers ==
  /\ Answered("all_fan_in")
  /\ Len(result.value) >= 2
  /\ PlaceIn(DiscoverOrder, Terminal(result.value[2]))
       < PlaceIn(DiscoverOrder, Terminal(result.value[1]))

\* The avoid lists of at most MaxAvoid + 1 vertex ids, sorted.
AvoidLists ==
  {<<>>} \cup {<<v>> : v \in Vertices}
    \cup {<<pair[1], pair[2]>> :
            pair \in {vw \in Vertices \X Vertices : vw[1] < vw[2]}}

RECURSIVE ChainEnds(_, _, _)
\* The parent chain from v reaches a vertex without parent in k steps.
ChainEnds(parentMap, v, k) ==
  IF parentMap[v] = <<>> THEN TRUE
  ELSE IF k = 0 THEN FALSE
  ELSE ChainEnds(parentMap, parentMap[v][1], k - 1)

\* The parent map of a tree-mode DFS from start: over the graph without the
\* avoided edge targets (any_path, path_exists), or over the reverse graph
\* (all_fan_in).
TreeParentMap(reverse, avoid, start) ==
  depthFirstSearch(GraphView(vertex, edges, reverse, avoid, FALSE), start)

\* C28: in tree mode the parent map built by a DFS gives every vertex at
\* most one parent and the parent chain from any vertex is acyclic, so both
\* assertions in determinePath hold for every graph, avoid set, start vertex
\* and finish vertex, including a start vertex that is in the avoid set.
C28_TreeParentMapIsForest ==
  pc = "ready" =>
    \A reverse \in BOOLEAN, avoid \in AvoidLists, start \in Vertices :
      LET parentMap == TreeParentMap(reverse, avoid, start)
      IN /\ \A v \in Vertices : Len(parentMap[v]) <= 1
         /\ \A v \in Vertices : ChainEnds(parentMap, v, Len(vertex))
         /\ \A finish \in Vertices :
              determinePath(parentMap, <<>>, start, finish) # AssertionFailed

\* A graph with a cycle and parallel edges on which the search from an
\* avoided start vertex finds a parent for another vertex.
C28_Witness ==
  /\ pc = "ready"
  /\ \E j, k \in DOMAIN edges : j # k /\ edges[j] = edges[k]
  /\ \E a, b \in Vertices :
       a # b /\ <<a, b>> \in EdgeSet /\ <<b, a>> \in EdgeSet
  /\ \E start \in Vertices, v \in Vertices :
       TreeParentMap(FALSE, <<start>>, start)[v] = <<start>>

\* A src_reg vertex is on the path only as its first element and a dst_reg
\* vertex only as its last.
StopsAtRegisters(path) ==
  \A k \in DOMAIN path :
    /\ isSrcReg(vertex[path[k]]) => k = 1
    /\ isDstReg(vertex[path[k]]) => k = Len(path)

\* C29: every path returned by any_path with two waypoints, all_paths with
\* two waypoints, all_fan_out or all_fan_in stops at register boundaries: a
\* src_reg vertex can appear only as the first element of the path and a
\* dst_reg vertex only as the last element.
C29_PathsStopAtRegisters ==
  /\ (Answered("any_path") /\ Len(query.waypoints) = 2) =>
       StopsAtRegisters(result.value)
  /\ ((Answered("all_paths") /\ Len(query.waypoints) = 2) \/ FanAnswered) =>
       \A k \in DOMAIN result.value : StopsAtRegisters(result.value[k])

\* A path from the source twin of a register through a statement to a
\* destination register has been returned.
C29_Witness ==
  /\ Answered("any_path")
  /\ Len(query.waypoints) = 2
  /\ Len(result.value) >= 3
  /\ isSrcReg(vertex[result.value[1]])
  /\ isDstReg(vertex[result.value[Len(result.value)]])

\* The same for the lists of all_paths, all_fan_out and all_fan_in.
C29_ListsReached ==
  /\ pc = "answered"
  /\ query.op \in {"all_paths", "all_fan_out", "all_fan_in"}
  /\ result.kind = "paths"
  /\ \E k \in DOMAIN result.value :
       /\ Len(result.value[k]) >= 3
       /\ isSrcReg(vertex[result.value[k][1]])
       /\ isDstReg(vertex[result.value[k][Len(result.value[k])]])

\* The parent map of the all-paths DFS from start, and the calls of
\* determineAllPaths for the pair (start, finish) on it.
AllParentMap(avoid, start) ==
  depthFirstSearch(GraphView(vertex, edges, FALSE, avoid, TRUE), start)
EnteredPaths(avoid, start, finish) ==
  determineAllPathsEntered(AllParentMap(avoid, start), <<>>, <<>>, start, finish)
AvoidListsUpToOne == {a \in AvoidLists : Len(a) <= MaxAvoid}

\* C30: determineAllPaths terminates on every finite graph, including
\* graphs with cycles such as the two-way edges between a top-level port and
\* its internal variable: no vertex is entered twice on the same partial
\* path, so the recursion depth never exceeds the number of vertices, and
\* every path it records is simple.
C30_AllPathsWalkIsBounded ==
  pc = "ready" =>
    \A avoid \in AvoidListsUpToOne, start \in Vertices, finish \in Vertices :
      LET entered == EnteredPaths(avoid, start, finish)
          recorded == determineAllPaths(AllParentMap(avoid, start), <<>>, <<>>,
                                        start, finish)
      IN /\ \A k \in DOMAIN entered :
              IsSimple(entered[k]) /\ Len(entered[k]) <= Len(vertex)
         /\ \A k \in DOMAIN recorded : IsSimple(recorded[k])
         /\ recorded = SelectSeq(entered, LAMBDA p : p[Len(p)] = start)

\* A port and its internal variable joined by edges both ways, and a walk
\* that turns back at a parent already on its path and still records a path
\* of three or more vertices.
C30_Witness ==
  /\ pc = "ready"
  /\ \E a, b \in Vertices :
       /\ a # b /\ <<a, b>> \in EdgeSet /\ <<b, a>> \in EdgeSet
       /\ isPort(vertex[a]) /\ ~isLogic(vertex[b])
  /\ \E start \in Vertices, finish \in Vertices :
       LET entered == EnteredPaths(<<>>, start, finish)
           parentMap == AllParentMap(<<>>, start)
       IN /\ \E k \in DOMAIN entered :
               LET p == entered[k]
               IN /\ p[Len(p)] # start
                  /\ \E j \in DOMAIN parentMap[p[Len(p)]] :
                       Contains(p, parentMap[p[Len(p)]][j])
          /\ \E k \in DOMAIN entered :
               Len(entered[k]) >= 3 /\ entered[k][Len(entered[k])] = start

====
